---- MODULE Spec2Model ----
(***************************************************************************)
(* Doge Astronaut (KossayBusiness/jeux-doge): the game logic of the hook   *)
(* useGameLogic and of GameUtils.ts as a state machine.                    *)
(*                                                                         *)
(* Lengths, velocities and speeds are fixed-point numbers in 1/1000 pixel  *)
(* (GRAVITY 0.5 is 500, SPEED_INCREASE_RATE 0.003 is 3); times are in      *)
(* milliseconds, as Date.now() gives them.  Strings kept in localStorage   *)
(* are sequences of one-character strings, so that toString and parseInt   *)
(* are conversions and not the identity.                                   *)
(*                                                                         *)
(* Every React handler runs to completion before the next one starts; the  *)
(* collision effect is modelled in its two loops (obstacles, then          *)
(* collectibles), the second one running with the values its closure       *)
(* captured before the first one ran.                                      *)
(***************************************************************************)
EXTENDS Integers, Sequences, FiniteSets

(***************************************************************************)
(* Bounds of the model.                                                    *)
(***************************************************************************)
\* frame ticks are explored while the session score is below MaxScore
MaxScore == 1
\* coins credited per session
MaxCoins == 1
\* coins are credited while the total currency is below MaxBank
MaxBank == 2
\* buyPower is explored for a power that holds at most MaxStock uses
MaxStock == 1
\* the clock is not advanced beyond MaxNow milliseconds
MaxNow == 1003000

(***************************************************************************)
(* GAME_CONFIG (GameUtils.ts), in 1/1000 pixel where it is a length.       *)
(***************************************************************************)
CANVAS_WIDTH == 800000
GRAVITY == 500
JUMP_FORCE == -11000
GROUND_Y == 500000
BASE_SCROLL_SPEED == 4000
MAX_SCROLL_SPEED == 16000
\* 0.003 pixel per point of score
SPEED_INCREASE_RATE == 3
COIN_VALUE == 10

\* exchangeForDogevision
EXCHANGE_RATE == 1000
DOGEVISION_PER_UNIT == 100
\* loseLife: setTimeout(..., 2000)
INVULNERABILITY_MS == 2000

(***************************************************************************)
(* The power catalogue (shopState.availablePowers).                        *)
(***************************************************************************)
PowerIds == {"double_collector", "magnetic_collector", "three_lives"}

Cost(id) ==
  CASE id = "double_collector" -> 25
    [] id = "magnetic_collector" -> 50
    [] id = "three_lives" -> 100

\* seconds
Duration(id) ==
  CASE id = "double_collector" -> 30
    [] id = "magnetic_collector" -> 999
    [] id = "three_lives" -> 999

MaxUses(id) ==
  CASE id = "double_collector" -> 2
    [] id = "magnetic_collector" -> 2
    [] id = "three_lives" -> 2

\* the localStorage key of a power's usesRemaining
UsesKey(id) ==
  CASE id = "double_collector" -> "dogeDoubleCollectorUses"
    [] id = "magnetic_collector" -> "dogeMagneticCollectorUses"
    [] id = "three_lives" -> "dogeThreeLivesUses"

StorageKeys ==
  {"dogeHighScore", "dogeHighCoins", "dogeTotalCoins", "dogeDogevisions"}
    \cup {UsesKey(id) : id \in PowerIds}

(***************************************************************************)
(* Number.prototype.toString and parseInt on decimal strings.              *)
(***************************************************************************)
Digits == <<"0", "1", "2", "3", "4", "5", "6", "7", "8", "9">>

DigitValue(c) == CHOOSE d \in 0..9 : Digits[d + 1] = c

IsDigit(c) == \E d \in 0..9 : Digits[d + 1] = c

RECURSIVE NatToString(_)
NatToString(n) ==
  IF n < 10 THEN <<Digits[n + 1]>>
  ELSE Append(NatToString(n \div 10), Digits[(n % 10) + 1])

\* n.toString() of an integer n
ToString(n) == IF n < 0 THEN <<"-">> \o NatToString(-n) ELSE NatToString(n)

\* what parseInt gives when the string starts with no number: a value that
\* no decimal string of the stores explored denotes
NaN == -2000000000

RECURSIVE DigitPrefixValue(_, _)
\* the value of the longest prefix of digits of s, read after the value acc
DigitPrefixValue(s, acc) ==
  IF s = <<>> \/ ~IsDigit(Head(s)) THEN acc
  ELSE DigitPrefixValue(Tail(s), 10 * acc + DigitValue(Head(s)))

RECURSIVE SkipSpaces(_)
SkipSpaces(s) == IF s # <<>> /\ Head(s) = " " THEN SkipSpaces(Tail(s)) ELSE s

\* parseInt(s): leading blanks, an optional sign, then the longest run of
\* digits; NaN when there is no digit there
ParseInt(str) ==
  LET s == SkipSpaces(str)
      signed == s # <<>> /\ Head(s) \in {"-", "+"}
      body == IF signed THEN Tail(s) ELSE s
      magnitude == DigitPrefixValue(body, 0)
  IN  IF body = <<>> \/ ~IsDigit(Head(body)) THEN NaN
      ELSE IF signed /\ Head(s) = "-" THEN -magnitude ELSE magnitude

(***************************************************************************)
(* The state.                                                              *)
(***************************************************************************)
VARIABLES
  gameState,            \* isPlaying, score, coins, highScore, highCoins, gameOver
  totalCoinsCollected,  \* total currency (bones)
  dogevisions,          \* premium currency
  lives, maxLives, isInvulnerable,
  shopState,            \* isOpen, usesRemaining of every power
  activePowers,         \* power id -> expiry timestamp, for the active powers
  player,               \* position, velocity, isGrounded, isJumping, jumpCount
  obstacles, collectibles, particles,
  worldOffset, nextObstacleX, currentSpeed,
  localStorage,         \* key -> stored string, for the keys that are set
  now,                  \* Date.now()
  timeouts,             \* deadlines of the pending invulnerability timeouts
  effect,               \* the collision effect's position and closure
  hits,                 \* the hits taken since startGame that loseLife did not ignore
  created,              \* the obstacles and collectibles created since startGame
  last                  \* the operation that ran last, and its argument

vars ==
  <<gameState, totalCoinsCollected, dogevisions, lives, maxLives,
    isInvulnerable, shopState, activePowers, player, obstacles, collectibles,
    particles, worldOffset, nextObstacleX, currentSpeed, localStorage, now,
    timeouts, effect, hits, created, last>>

\* localStorage.getItem(key) || '0'
GetItemOrZero(store, key) ==
  IF key \in DOMAIN store /\ store[key] # <<>> THEN store[key] ELSE <<"0">>

\* localStorage.setItem(key, value)
\* a slip: the write is lost
SetItem_Lost(store, key, value) == store

SetItem(store, key, value) ==
  [k \in DOMAIN store \cup {key} |-> IF k = key THEN value ELSE store[k]]

\* parseInt(localStorage.getItem(key) || '0')
ReadNumber(store, key) == ParseInt(GetItemOrZero(store, key))

\* no power is active
NoPowers == [id \in {} |-> 0]

\* the collision effect is not running
Idle == [at |-> "idle", activePowers |-> NoPowers]

\* the player's box (useState<Player>: width 60, height 70)
PLAYER_WIDTH == 60000
PLAYER_HEIGHT == 70000
PLAYER_X == 100000
\* maxJumps
MAX_JUMPS == 1

(***************************************************************************)
(* The state after construction: every persisted number is read from       *)
(* localStorage, which holds what earlier sessions left there.             *)
(***************************************************************************)
\* what earlier sessions may have left in localStorage: nothing (a first
\* visit), or records, a balance and uses of the powers
FirstVisit == [k \in {} |-> <<>>]

ReturningWith(total, double) ==
  [k \in StorageKeys |->
     CASE k = "dogeHighScore" -> ToString(11)
       [] k = "dogeHighCoins" -> ToString(1)
       [] k = "dogeTotalCoins" -> ToString(total)
       [] k = "dogeDogevisions" -> ToString(0)
       [] k = "dogeDoubleCollectorUses" -> ToString(double)
       [] k = "dogeMagneticCollectorUses" -> ToString(0)
       [] k = "dogeThreeLivesUses" -> ToString(1)]

InitialStores == {FirstVisit, ReturningWith(1, 2), ReturningWith(30, 1)}

\* what a player leaves who has played and earned a balance but has never
\* bought a power nor exchanged: no key of the powers is set
EarnedOnly(total) ==
  [k \in {"dogeHighScore", "dogeHighCoins", "dogeTotalCoins"} |->
     CASE k = "dogeHighScore" -> ToString(1000)
       [] k = "dogeHighCoins" -> ToString(total)
       [] k = "dogeTotalCoins" -> ToString(total)]

InitFrom(store) ==
  /\ localStorage = store
  /\ gameState = [isPlaying |-> FALSE, score |-> 0, coins |-> 0,
                  highScore |-> ReadNumber(store, "dogeHighScore"),
                  highCoins |-> ReadNumber(store, "dogeHighCoins"),
                  gameOver |-> FALSE]
  /\ totalCoinsCollected = ReadNumber(store, "dogeTotalCoins")
  /\ dogevisions = ReadNumber(store, "dogeDogevisions")
  /\ lives = 1
  /\ maxLives = 1
  /\ isInvulnerable = FALSE
  /\ shopState = [isOpen |-> FALSE,
                  usesRemaining |->
                    [id \in PowerIds |-> ReadNumber(store, UsesKey(id))]]
  /\ activePowers = NoPowers
  /\ player = [x |-> PLAYER_X, y |-> GROUND_Y - 60000, vy |-> 0,
               isJumping |-> FALSE, isGrounded |-> TRUE, jumpCount |-> 0]
  /\ obstacles = <<>>
  /\ collectibles = <<>>
  /\ particles = <<>>
  /\ worldOffset = 0
  /\ nextObstacleX = CANVAS_WIDTH + 100000
  /\ currentSpeed = BASE_SCROLL_SPEED
  /\ now = 0
  /\ timeouts = <<>>
  /\ effect = Idle
  /\ hits = 0
  /\ created = [obstacles |-> 0, collectibles |-> 0]
  /\ last = [op |-> "init", arg |-> "-", ret |-> <<>>]

Init == \E store \in InitialStores : InitFrom(store)

\* the operation op ran with argument arg; ret holds the value it returned,
\* when it returns one, or the draw of Math.random() it made
Ran(op, arg) == [op |-> op, arg |-> arg, ret |-> <<>>]

\* the value exchangeForDogevision returns
ExchangeResult(success, dogevisionsAdded, osSpent) ==
  [success |-> success, dogevisionsAdded |-> dogevisionsAdded,
   osSpent |-> osSpent]

\* createParticle: a particle lives 30 frames; n of them are appended
PARTICLE_LIFE == 30
WithParticles(ps, n) == ps \o [i \in 1..n |-> PARTICLE_LIFE]

(***************************************************************************)
(* openShop / closeShop, as the S key and the SHOP and close buttons call  *)
(* them: only while no game is playing.                                    *)
(***************************************************************************)
ToggleShop ==
  /\ effect = Idle
  /\ ~gameState.isPlaying
  /\ shopState' = [shopState EXCEPT !.isOpen = ~shopState.isOpen]
  /\ last' = Ran("toggleShop", IF shopState.isOpen THEN "close" ELSE "open")
  /\ UNCHANGED <<gameState, totalCoinsCollected, dogevisions, lives, maxLives,
                 isInvulnerable, activePowers, player, obstacles, collectibles,
                 particles, worldOffset, nextObstacleX, currentSpeed,
                 localStorage, now, timeouts, effect, hits, created>>

(***************************************************************************)
(* exchangeForDogevision                                                   *)
(***************************************************************************)
\* a slip: one unit is exchanged at a time
MaxExchangeable_One(total) == IF total >= EXCHANGE_RATE THEN 1 ELSE 0

\* a slip: the number of units is rounded up
MaxExchangeable_Up(total) == (total + EXCHANGE_RATE - 1) \div EXCHANGE_RATE

\* Math.floor(totalCoinsCollected / EXCHANGE_RATE)
MaxExchangeable(total) == total \div EXCHANGE_RATE

ExchangeForDogevision ==
  LET maxExchangeable == MaxExchangeable(totalCoinsCollected)
      osToSpend == maxExchangeable * EXCHANGE_RATE
      dogevisionsToAdd == maxExchangeable * DOGEVISION_PER_UNIT
      newTotalCoins == totalCoinsCollected - osToSpend
      newDogevisions == dogevisions + dogevisionsToAdd
  IN  /\ effect = Idle
      /\ IF maxExchangeable > 0
         THEN /\ totalCoinsCollected' = newTotalCoins
              /\ dogevisions' = newDogevisions
              /\ localStorage' =
                   SetItem(SetItem(localStorage, "dogeTotalCoins",
                                   ToString(newTotalCoins)),
                           "dogeDogevisions", ToString(newDogevisions))
              /\ last' = [Ran("exchange", "success") EXCEPT
                            !.ret = <<ExchangeResult(TRUE, dogevisionsToAdd,
                                                     osToSpend)>>]
         ELSE /\ UNCHANGED <<totalCoinsCollected, dogevisions, localStorage>>
              /\ last' = [Ran("exchange", "failure") EXCEPT
                            !.ret = <<ExchangeResult(FALSE, 0, 0)>>]
      /\ UNCHANGED <<gameState, lives, maxLives, isInvulnerable, shopState,
                     activePowers, player, obstacles, collectibles, particles,
                     worldOffset, nextObstacleX, currentSpeed, now, timeouts,
                     effect, hits, created>>

(***************************************************************************)
(* buyPower(powerId)                                                       *)
(***************************************************************************)
\* a slip: only a debt stops a purchase
CannotAfford_Debt(total, id) == total < 0

\* buyPower returns early: the balance does not cover the cost
CannotAfford(total, id) == total < Cost(id)

\* a slip: a purchase adds one use
UsesAfterPurchase_One(uses, id) == uses + 1

\* (power.usesRemaining || 0) + (power.maxUses || 1)
UsesAfterPurchase(uses, id) ==
  uses + (IF MaxUses(id) = 0 THEN 1 ELSE MaxUses(id))

BuyPower(id) ==
  LET newTotal == totalCoinsCollected - Cost(id)
      newUsesRemaining == UsesAfterPurchase(shopState.usesRemaining[id], id)
  IN  /\ effect = Idle
      /\ shopState.usesRemaining[id] <= MaxStock
      /\ IF CannotAfford(totalCoinsCollected, id)
         THEN /\ UNCHANGED <<totalCoinsCollected, localStorage, shopState>>
              /\ last' = Ran("buyPower.ignored", id)
         ELSE /\ totalCoinsCollected' = newTotal
              /\ localStorage' =
                   SetItem(SetItem(localStorage, "dogeTotalCoins",
                                   ToString(newTotal)),
                           UsesKey(id), ToString(newUsesRemaining))
              /\ shopState' =
                   [isOpen |-> FALSE,
                    usesRemaining |->
                      [shopState.usesRemaining EXCEPT ![id] = newUsesRemaining]]
              /\ last' = Ran("buyPower", id)
      /\ UNCHANGED <<gameState, dogevisions, lives, maxLives, isInvulnerable,
                     activePowers, player, obstacles, collectibles, particles,
                     worldOffset, nextObstacleX, currentSpeed, now, timeouts,
                     effect, hits, created>>

(***************************************************************************)
(* usePower(powerId), on the state a handler has built so far              *)
(***************************************************************************)
\* a slip: a power without a use left is used all the same
CanUse_Zero(uses, id) == uses[id] >= 0

\* usePower goes on: the power has a use left
CanUse(uses, id) == uses[id] > 0

\* a slip: the duration is added in seconds
Activated_Seconds(powers, id, t) ==
  [k \in DOMAIN powers \cup {id} |->
     IF k = id THEN t + Duration(id) ELSE powers[k]]

\* setActivePowers(prev => ({...prev, [powerId]: Date.now() + duration*1000}))
Activated(powers, id, t) ==
  [k \in DOMAIN powers \cup {id} |->
     IF k = id THEN t + Duration(id) * 1000 ELSE powers[k]]

\* a slip: an activation takes two uses
UsesAfterUse_Two(uses, id) == uses[id] - 2

\* newUsesRemaining = power.usesRemaining - 1
UsesAfterUse(uses, id) ==
 uses[id] - 1

\* a slip: the 3-lives power gives two lives
UsePowerOn_TwoLives(s, closureUses, id) ==
  IF ~CanUse(closureUses, id) THEN s
  ELSE [s EXCEPT
          !.activePowers = Activated(@, id, now),
          !.lives = IF id = "three_lives" THEN 2 ELSE @,
          !.maxLives = IF id = "three_lives" THEN 3 ELSE @,
          !.localStorage =
             SetItem(@, UsesKey(id), ToString(UsesAfterUse(closureUses, id))),
          !.usesRemaining = [@ EXCEPT ![id] = UsesAfterUse(closureUses, id)]]

\* the state usePower(id) leaves, given the state s it runs on and the
\* usesRemaining its closure holds
UsePowerOn(s, closureUses, id) ==
  IF ~CanUse(closureUses, id) THEN s
  ELSE [s EXCEPT
          !.activePowers = Activated(@, id, now),
          !.lives = IF id = "three_lives" THEN 3 ELSE @,
          !.maxLives = IF id = "three_lives" THEN 3 ELSE @,
          !.localStorage =
             SetItem(@, UsesKey(id), ToString(UsesAfterUse(closureUses, id))),
          !.usesRemaining = [@ EXCEPT ![id] = UsesAfterUse(closureUses, id)]]

\* the part of the state usePower works on
PowerState ==
  [activePowers |-> activePowers, lives |-> lives, maxLives |-> maxLives,
   localStorage |-> localStorage, usesRemaining |-> shopState.usesRemaining]

UsePower(id) ==
  LET s == UsePowerOn(PowerState, shopState.usesRemaining, id)
  IN  /\ effect = Idle
      /\ activePowers' = s.activePowers
      /\ lives' = s.lives
      /\ maxLives' = s.maxLives
      /\ localStorage' = s.localStorage
      /\ shopState' = [shopState EXCEPT !.usesRemaining = s.usesRemaining]
      /\ last' = Ran(IF CanUse(shopState.usesRemaining, id)
                       THEN "usePower" ELSE "usePower.ignored", id)
      /\ UNCHANGED <<gameState, totalCoinsCollected, dogevisions,
                     isInvulnerable, player, obstacles, collectibles,
                     particles, worldOffset, nextObstacleX, currentSpeed, now,
                     timeouts, effect, hits, created>>

(***************************************************************************)
(* checkPowerExpiration, run by setInterval every second                   *)
(***************************************************************************)
\* a slip: an entry that expires at this very instant is kept
Expired_Strict(powers, t) == {id \in DOMAIN powers : powers[id] < t}

\* updated[powerId] <= now
Expired(powers, t) == {id \in DOMAIN powers : powers[id] <= t}

CheckPowerExpiration ==
  LET expired == Expired(activePowers, now)
  IN  /\ effect = Idle
      /\ activePowers' = [id \in DOMAIN activePowers \ expired |-> activePowers[id]]
      /\ IF "three_lives" \in expired
         THEN lives' = 1 /\ maxLives' = 1
         ELSE UNCHANGED <<lives, maxLives>>
      /\ last' = Ran("checkPowerExpiration",
                     IF expired = {} THEN "none" ELSE "expired")
      /\ UNCHANGED <<gameState, totalCoinsCollected, dogevisions,
                     isInvulnerable, shopState, player, obstacles,
                     collectibles, particles, worldOffset, nextObstacleX,
                     currentSpeed, localStorage, now, timeouts, effect, hits,
                     created>>

(***************************************************************************)
(* jump, as the Space key and the canvas click call it: only while a game  *)
(* is playing.                                                             *)
(***************************************************************************)
\* a slip: a second jump is allowed in the air
MayJump_Airborne(p) == p.jumpCount <= 1

\* player.isGrounded && player.jumpCount === 0
MayJump(p) == p.isGrounded /\ p.jumpCount = 0

\* a slip: half the impulse
Jumped_Half(p) ==
  [p EXCEPT !.vy = JUMP_FORCE \div 2, !.isJumping = TRUE,
            !.isGrounded = FALSE, !.jumpCount = 1]

\* setPlayer(prev => ...) of jump
Jumped(p) ==
  [p EXCEPT !.vy = JUMP_FORCE, !.isJumping = TRUE, !.isGrounded = FALSE,
            !.jumpCount = 1]

Jump ==
  /\ effect = Idle
  /\ gameState.isPlaying
  /\ IF MayJump(player)
     THEN /\ player' = Jumped(player)
          /\ particles' = WithParticles(particles, 5)
          /\ last' = Ran("jump", "-")
     ELSE /\ UNCHANGED <<player, particles>>
          /\ last' = Ran("jump.ignored", "-")
  /\ UNCHANGED <<gameState, totalCoinsCollected, dogevisions, lives, maxLives,
                 isInvulnerable, shopState, activePowers, obstacles,
                 collectibles, worldOffset, nextObstacleX, currentSpeed,
                 localStorage, now, timeouts, effect, hits, created>>

(***************************************************************************)
(* startGame, as the Space key, the canvas click and the START buttons     *)
(* call it: only while no game is playing and the shop is closed.          *)
(***************************************************************************)
\* a slip: startGame activates the 2x collector only
AutoActivated_First == <<"double_collector">>

\* the order in which startGame activates the powers that have a use left
AutoActivated == <<"double_collector", "magnetic_collector", "three_lives">>

RECURSIVE AutoActivate(_, _, _)
\* usePower for the powers from the i-th on, each called with the
\* usesRemaining that startGame's closure holds
AutoActivate(s, closureUses, i) ==
  IF i > Len(AutoActivated) THEN s
  ELSE AutoActivate(UsePowerOn(s, closureUses, AutoActivated[i]),
                    closureUses, i + 1)

\* a slip: the player is left where the last game ended
StartPlayer_Keep(prev) == prev

\* setPlayer(prev => ...) of startGame
StartPlayer(prev) ==
  [prev EXCEPT !.x = PLAYER_X, !.y = GROUND_Y - PLAYER_HEIGHT, !.vy = 0,
               !.isGrounded = TRUE, !.jumpCount = 0]

\* startGame(), whatever the state it is called in
StartGameCall ==
  LET reset == [PowerState EXCEPT !.lives = 1, !.maxLives = 1]
      s == AutoActivate(reset, shopState.usesRemaining, 1)
  IN  /\ effect = Idle
      /\ gameState' = [gameState EXCEPT !.isPlaying = TRUE, !.gameOver = FALSE,
                                        !.score = 0, !.coins = 0]
      /\ player' = StartPlayer(player)
      /\ obstacles' = <<>>
      /\ collectibles' = <<>>
      /\ particles' = <<>>
      /\ worldOffset' = 0
      /\ nextObstacleX' = CANVAS_WIDTH + 100000
      /\ currentSpeed' = BASE_SCROLL_SPEED
      /\ isInvulnerable' = FALSE
      /\ activePowers' = s.activePowers
      /\ lives' = s.lives
      /\ maxLives' = s.maxLives
      /\ localStorage' = s.localStorage
      /\ shopState' = [isOpen |-> FALSE, usesRemaining |-> s.usesRemaining]
      /\ hits' = 0
      /\ created' = [obstacles |-> 0, collectibles |-> 0]
      /\ last' = Ran("startGame", "-")
      /\ UNCHANGED <<totalCoinsCollected, dogevisions, now, timeouts, effect>>

\* startGame as the application calls it: from the Space key, the canvas and
\* the menus, while no game is playing and the shop is closed
StartGame ==
  /\ ~gameState.isPlaying
  /\ ~shopState.isOpen
  /\ StartGameCall

(***************************************************************************)
(* gameOver and loseLife                                                   *)
(***************************************************************************)
\* a slip: the latest value wins
Max_Latest(a, b) == a

\* Math.max
Max(a, b) == IF a >= b THEN a ELSE b

\* a slip: game-over clears the session's score and coins
GameOverState_Cleared(prev) ==
  [prev EXCEPT !.isPlaying = FALSE, !.gameOver = TRUE,
               !.score = 0, !.coins = 0,
               !.highScore = Max(prev.score, prev.highScore),
               !.highCoins = Max(prev.coins, prev.highCoins)]

\* a slip: game-over leaves the game playing
GameOverState_Running(prev) ==
  [prev EXCEPT !.gameOver = TRUE,
               !.highScore = Max(prev.score, prev.highScore),
               !.highCoins = Max(prev.coins, prev.highCoins)]

\* setGameState(prev => ...) of gameOver
GameOverState(prev) ==
  [prev EXCEPT !.isPlaying = FALSE, !.gameOver = TRUE,
               !.highScore = Max(prev.score, prev.highScore),
               !.highCoins = Max(prev.coins, prev.highCoins)]

\* a slip: game-over leaves the active powers running
GameOver_KeepPowers ==
  /\ UNCHANGED activePowers
  /\ lives' = 1
  /\ maxLives' = 1
  /\ isInvulnerable' = FALSE
  /\ gameState' = GameOverState(gameState)
  /\ localStorage' =
       SetItem(SetItem(localStorage, "dogeHighScore",
                       ToString(GameOverState(gameState).highScore)),
               "dogeHighCoins", ToString(GameOverState(gameState).highCoins))
  /\ particles' = WithParticles(particles, 20)
  /\ UNCHANGED timeouts

GameOver ==
  /\ activePowers' = NoPowers
  /\ lives' = 1
  /\ maxLives' = 1
  /\ isInvulnerable' = FALSE
  /\ gameState' = GameOverState(gameState)
  /\ localStorage' =
       SetItem(SetItem(localStorage, "dogeHighScore",
                       ToString(GameOverState(gameState).highScore)),
               "dogeHighCoins", ToString(GameOverState(gameState).highCoins))
  /\ particles' = WithParticles(particles, 20)
  /\ UNCHANGED timeouts

\* a slip: the last life counts as a spare one
HasSpareLife_OffByOne(n) == n >= 1

\* lives > 1: a life is lost and the game goes on
HasSpareLife(n) == n > 1

\* a slip: a hit costs two lives
LifeAfterHit_Two(n) == n - 2

\* newLives
LifeAfterHit(n) == n - 1

\* a slip: a hit counts even while the player is invulnerable
LoseLife_Unshielded ==
  IF HasSpareLife(lives)
  THEN /\ lives' = LifeAfterHit(lives)
       /\ hits' = hits + 1
       /\ isInvulnerable' = TRUE
       /\ timeouts' = Append(timeouts, now + INVULNERABILITY_MS)
       /\ particles' = WithParticles(particles, 15)
       /\ last' = Ran("loseLife", "lifeLost")
       /\ UNCHANGED <<activePowers, maxLives, gameState, localStorage>>
  ELSE /\ GameOver
       /\ hits' = hits + 1
       /\ last' = Ran("loseLife", "gameOver")

LoseLife ==
  IF isInvulnerable
  THEN /\ UNCHANGED <<activePowers, lives, maxLives, isInvulnerable, gameState,
                      localStorage, particles, timeouts, hits>>
       /\ last' = Ran("loseLife.ignored", "-")
  ELSE IF HasSpareLife(lives)
  THEN /\ lives' = LifeAfterHit(lives)
       /\ hits' = hits + 1
       /\ isInvulnerable' = TRUE
       /\ timeouts' = Append(timeouts, now + INVULNERABILITY_MS)
       /\ particles' = WithParticles(particles, 15)
       /\ last' = Ran("loseLife", "lifeLost")
       /\ UNCHANGED <<activePowers, maxLives, gameState, localStorage>>
  ELSE /\ GameOver
       /\ hits' = hits + 1
       /\ last' = Ran("loseLife", "gameOver")

\* the callback of loseLife's setTimeout
InvulnerabilityTimeout ==
  /\ effect = Idle
  /\ \E i \in 1..Len(timeouts) :
       /\ timeouts[i] <= now
       /\ timeouts' = SubSeq(timeouts, 1, i - 1) \o
                        SubSeq(timeouts, i + 1, Len(timeouts))
  /\ isInvulnerable' = FALSE
  /\ last' = Ran("invulnerabilityTimeout", "-")
  /\ UNCHANGED <<gameState, totalCoinsCollected, dogevisions, lives, maxLives,
                 shopState, activePowers, player, obstacles, collectibles,
                 particles, worldOffset, nextObstacleX, currentSpeed,
                 localStorage, now, effect, hits, created>>

(***************************************************************************)
(* collectCoin(coin), on the state the collision effect has built so far   *)
(***************************************************************************)
\* activePowers[id] && activePowers[id] > Date.now()
IsActive(powers, id, t) == id \in DOMAIN powers /\ powers[id] > t

\* a slip: the doubling is forgotten for the coins
CoinsToAdd_One(double) == 1

\* coinsToAdd
CoinsToAdd(double) == IF double THEN 2 ELSE 1

\* coinValue
CoinValue(coin, double) == IF double THEN coin.value * 2 ELSE coin.value

CollectCoinOn(s, closurePowers, coin) ==
  IF coin.collected \/ ~coin.active THEN s
  ELSE
    LET double == IsActive(closurePowers, "double_collector", now)
        newTotal == s.totalCoinsCollected + CoinsToAdd(double)
    IN  [s EXCEPT
           !.collectibles =
              [i \in 1..Len(@) |->
                 IF @[i] = coin
                 THEN [@[i] EXCEPT !.collected = TRUE, !.active = FALSE]
                 ELSE @[i]],
           !.gameState = [@ EXCEPT !.score = @ + CoinValue(coin, double),
                                   !.coins = @ + CoinsToAdd(double)],
           !.totalCoinsCollected = newTotal,
           !.localStorage = SetItem(@, "dogeTotalCoins", ToString(newTotal)),
           !.particles = WithParticles(@, IF double THEN 16 ELSE 8)]

RECURSIVE CollectAll(_, _, _)
\* collectCoin for every coin of the sequence, in order
CollectAll(s, closurePowers, coins) ==
  IF coins = <<>> THEN s
  ELSE CollectAll(CollectCoinOn(s, closurePowers, Head(coins)),
                  closurePowers, Tail(coins))

(***************************************************************************)
(* The collision effect.  Its first loop calls loseLife when the player's  *)
(* box meets an obstacle's; its second loop calls collectCoin for every    *)
(* collectible in reach, with the activePowers of the render the effect    *)
(* belongs to.                                                             *)
(***************************************************************************)
CollisionObstacles(hit) ==
  /\ effect = Idle
  /\ gameState.isPlaying
  /\ IF hit
     THEN LoseLife
     ELSE /\ UNCHANGED <<activePowers, lives, maxLives, isInvulnerable,
                         gameState, localStorage, particles, timeouts, hits>>
          /\ last' = Ran("collision", "miss")
  /\ effect' = [at |-> "collectibles", activePowers |-> activePowers]
  /\ UNCHANGED <<totalCoinsCollected, dogevisions, shopState, player,
                 obstacles, collectibles, worldOffset, nextObstacleX,
                 currentSpeed, now, created>>

CollisionCollectibles(reached) ==
  LET s == CollectAll([collectibles |-> collectibles, gameState |-> gameState,
                       totalCoinsCollected |-> totalCoinsCollected,
                       localStorage |-> localStorage,
                       particles |-> particles],
                      effect.activePowers, reached)
  IN  /\ effect.at = "collectibles"
      /\ collectibles' = s.collectibles
      /\ gameState' = s.gameState
      /\ totalCoinsCollected' = s.totalCoinsCollected
      /\ localStorage' = s.localStorage
      /\ particles' = s.particles
      /\ effect' = Idle
      /\ last' = IF reached = <<>> THEN last ELSE Ran("collectCoin", "-")
      /\ UNCHANGED <<dogevisions, lives, maxLives, isInvulnerable, shopState,
                     activePowers, player, obstacles, worldOffset,
                     nextObstacleX, currentSpeed, now, timeouts, hits,
                     created>>

\* collectCoin(coin) on its own, with the activePowers of the current render
CollectCoin(i) ==
  LET coin == collectibles[i]
      s == CollectCoinOn([collectibles |-> collectibles,
                          gameState |-> gameState,
                          totalCoinsCollected |-> totalCoinsCollected,
                          localStorage |-> localStorage,
                          particles |-> particles],
                         activePowers, coin)
  IN  /\ effect = Idle
      /\ collectibles' = s.collectibles
      /\ gameState' = s.gameState
      /\ totalCoinsCollected' = s.totalCoinsCollected
      /\ localStorage' = s.localStorage
      /\ particles' = s.particles
      /\ last' = Ran("collectCoin", "direct")
      /\ UNCHANGED <<dogevisions, lives, maxLives, isInvulnerable, shopState,
                     activePowers, player, obstacles, worldOffset,
                     nextObstacleX, currentSpeed, now, timeouts, effect, hits,
                     created>>

(***************************************************************************)
(* GameUtils.ts                                                            *)
(***************************************************************************)
Min(a, b) == IF a <= b THEN a ELSE b

\* a slip: the speed is not capped
GetGameSpeed_Unclamped(score) ==
  BASE_SCROLL_SPEED + score * SPEED_INCREASE_RATE

GetGameSpeed(score) ==
  Min(BASE_SCROLL_SPEED + score * SPEED_INCREASE_RATE, MAX_SCROLL_SPEED)

\* a slip: a box that touches the right edge of the other one counts
CheckCollision_Touch(obj1, obj2) ==
  /\ obj1.x <= obj2.x + obj2.width
  /\ obj1.x + obj1.width > obj2.x
  /\ obj1.y < obj2.y + obj2.height
  /\ obj1.y + obj1.height > obj2.y

\* the boxes overlap; boxes that only touch do not
\* a slip: a box resting on top of another counts as a collision
CheckCollision_Resting(obj1, obj2) ==
  /\ obj1.x < obj2.x + obj2.width
  /\ obj1.x + obj1.width > obj2.x
  /\ obj1.y < obj2.y + obj2.height
  /\ obj1.y + obj1.height >= obj2.y

CheckCollision(obj1, obj2) ==
  /\ obj1.x < obj2.x + obj2.width
  /\ obj1.x + obj1.width > obj2.x
  /\ obj1.y < obj2.y + obj2.height
  /\ obj1.y + obj1.height > obj2.y

(***************************************************************************)
(* The tests of the collision effect                                       *)
(***************************************************************************)
\* the player as a box: position, width and height
PlayerBox(p) ==
  [x |-> p.x, y |-> p.y, width |-> PLAYER_WIDTH, height |-> PLAYER_HEIGHT]

\* checkCollision(player, obstacle) for some obstacle
PlayerHit ==
  \E i \in 1..Len(obstacles) : CheckCollision(PlayerBox(player), obstacles[i])

\* MAGNETIC_RANGE = 150 pixels
MAGNETIC_RANGE == 150000

Abs(v) == IF v < 0 THEN -v ELSE v

\* v * v for a length v in 1/1000 pixel, as hi * 10^6 + lo: the square of a
\* length on the screen does not fit a machine integer
Square(v) ==
  LET a == Abs(v) \div 1000
      b == Abs(v) % 1000
      low == 2000 * a * b + b * b
  IN  [hi |-> a * a + low \div 1000000, lo |-> low % 1000000]

\* Math.sqrt(dx * dx + dy * dy) <= range
WithinRange(dx, dy, range) ==
  LET sx == Square(dx)
      sy == Square(dy)
      r == Square(range)
      lo == sx.lo + sy.lo
      hi == sx.hi + sy.hi + lo \div 1000000
  IN  hi < r.hi \/ (hi = r.hi /\ lo % 1000000 <= r.lo)

\* dx and dy between the centres of the player and of the coin
CentreDx(p, coin) == (p.x + PLAYER_WIDTH \div 2) - (coin.x + coin.width \div 2)
CentreDy(p, coin) == (p.y + PLAYER_HEIGHT \div 2) - (coin.y + coin.height \div 2)

\* a slip: the magnet stops short of its range
InReach_Strict(coin, powers) ==
  IF IsActive(powers, "magnetic_collector", now)
  THEN WithinRange(CentreDx(player, coin), CentreDy(player, coin),
                   MAGNETIC_RANGE - 1)
  ELSE CheckCollision(PlayerBox(player), coin)

\* a slip: the magnet reaches a third of its range
InReach_Short(coin, powers) ==
  IF IsActive(powers, "magnetic_collector", now)
  THEN WithinRange(CentreDx(player, coin), CentreDy(player, coin),
                   MAGNETIC_RANGE \div 3)
  ELSE CheckCollision(PlayerBox(player), coin)

\* the test the second loop applies to a coin: the magnet's range when the
\* magnet is active in the render's activePowers, contact otherwise
InReach(coin, powers) ==
  IF IsActive(powers, "magnetic_collector", now)
  THEN WithinRange(CentreDx(player, coin), CentreDy(player, coin),
                   MAGNETIC_RANGE)
  ELSE CheckCollision(PlayerBox(player), coin)

\* the coins the second loop hands to collectCoin
ReachedCoins(powers) ==
  SelectSeq(collectibles,
            LAMBDA c : ~c.collected /\ c.active /\ InReach(c, powers))

\* the margin of isOffScreen: 100 pixels
OFFSCREEN_MARGIN == 100000
\* a slip: the width is left out of the test
IsOffScreen_Left(obj) == obj.x < -OFFSCREEN_MARGIN

IsOffScreen(obj) == obj.x + obj.width < -OFFSCREEN_MARGIN

\* updateParticles: every particle ages by a frame, the dead ones go
UpdateParticles(ps) ==
  SelectSeq([i \in 1..Len(ps) |-> ps[i] - 1], LAMBDA life : life > 0)

(***************************************************************************)
(* gameLoop: one frame                                                     *)
(***************************************************************************)
\* a slip: the ground does not stop the fall
PlayerAfterFrame_Fall(prev) ==
  [prev EXCEPT !.y = prev.y + prev.vy + GRAVITY, !.vy = prev.vy + GRAVITY,
               !.isGrounded = FALSE]

\* setPlayer(prev => ...): gravity, then the ground
PlayerAfterFrame(prev) ==
  LET vy == prev.vy + GRAVITY
      y == prev.y + vy
      groundY == GROUND_Y - PLAYER_HEIGHT
  IN  IF y >= groundY
      THEN [prev EXCEPT !.y = groundY, !.vy = 0, !.isGrounded = TRUE,
                        !.isJumping = FALSE, !.jumpCount = 0]
      ELSE [prev EXCEPT !.y = y, !.vy = vy, !.isGrounded = FALSE]

OBSTACLE_SIZE == 60000
OBSTACLE_GAP == 200000
BONE_SIZE == 65000
ObstacleTypes == {"meteorite", "rock", "flag"}

\* bonePositionOptions: the offset after the obstacle and the height above
\* the ground of the eight placements
BoneOffsets ==
  <<[dx |-> 60000, up |-> 60000], [dx |-> 100000, up |-> 60000],
    [dx |-> 140000, up |-> 60000], [dx |-> 80000, up |-> 75000],
    [dx |-> 120000, up |-> 75000], [dx |-> 90000, up |-> 90000],
    [dx |-> 110000, up |-> 90000], [dx |-> 100000, up |-> 105000]>>

\* difficultyWeights, in 1/1000
DifficultyWeights == <<450, 300, 150, 50, 30, 20, 0, 0>>

RECURSIVE SelectFrom_Strict(_, _, _)
\* a slip: a draw equal to the cumulative weight goes to the next placement
SelectFrom_Strict(random, cumulativeWeight, i) ==
  IF i > Len(DifficultyWeights) THEN 0
  ELSE IF random < cumulativeWeight + DifficultyWeights[i] THEN i - 1
  ELSE SelectFrom_Strict(random, cumulativeWeight + DifficultyWeights[i],
                         i + 1)

RECURSIVE SelectFrom(_, _, _)
\* the loop of the weighted selection from index i on, with the weights
\* before i summing to cumulativeWeight; the index is 0-based as in the code
SelectFrom(random, cumulativeWeight, i) ==
  IF i > Len(DifficultyWeights) THEN 0
  ELSE IF random <= cumulativeWeight + DifficultyWeights[i] THEN i - 1
  ELSE SelectFrom(random, cumulativeWeight + DifficultyWeights[i], i + 1)

\* selectedIndex for the draw Math.random() = random / 1000
SelectedIndex(random) == SelectFrom(random, 0, 1)

\* the draws of Math.random() that are explored, in 1/1000
RandomDraws == {0, 450, 451, 999}

NewObstacle(type) ==
  [x |-> nextObstacleX - worldOffset, y |-> GROUND_Y - OBSTACLE_SIZE,
   width |-> OBSTACLE_SIZE, height |-> OBSTACLE_SIZE, active |-> TRUE,
   type |-> type]

NewBone(random) ==
  LET option == BoneOffsets[SelectedIndex(random) + 1]
  IN  [x |-> nextObstacleX + OBSTACLE_SIZE + option.dx - worldOffset,
       y |-> GROUND_Y - option.up,
       width |-> BONE_SIZE, height |-> BONE_SIZE, active |-> TRUE,
       collected |-> FALSE, animation |-> 0, value |-> COIN_VALUE]

\* a slip: the gap is counted from the obstacle's left edge
NextCursor_Overlap(cursor) == cursor + OBSTACLE_GAP

\* setNextObstacleX(nextObstacleX + width + 200)
NextCursor(cursor) == cursor + OBSTACLE_SIZE + OBSTACLE_GAP

\* currentWorldX >= nextObstacleX
SpawnDue == worldOffset + CANVAS_WIDTH >= nextObstacleX

Scrolled(entities, speed) ==
  [i \in 1..Len(entities) |-> [entities[i] EXCEPT !.x = @ - speed]]

\* the float animation advances by 0.08 a frame, counted in 1/100
Floated(coins) ==
  [i \in 1..Len(coins) |-> [coins[i] EXCEPT !.animation = @ + 8]]

ObstaclesAfterFrame(prev, speed) ==
  SelectSeq(Scrolled(prev, speed), LAMBDA o : ~IsOffScreen(o))

CollectiblesAfterFrame(prev, speed) ==
  SelectSeq(Floated(Scrolled(prev, speed)),
            LAMBDA c : ~IsOffScreen(c) /\ c.active)

\* the updates of one frame, for an obstacle type and a draw of
\* Math.random() out of the given sets
FrameUpdates(types, draws) ==
  LET newSpeed == GetGameSpeed(gameState.score)
  IN  /\ gameState.isPlaying
      /\ currentSpeed' = newSpeed
      /\ worldOffset' = worldOffset + newSpeed
      /\ player' = PlayerAfterFrame(player)
      /\ IF SpawnDue
         THEN \E type \in types, random \in draws :
                /\ obstacles' =
                     ObstaclesAfterFrame(Append(obstacles, NewObstacle(type)),
                                         newSpeed)
                /\ collectibles' =
                     CollectiblesAfterFrame(
                       Append(collectibles, NewBone(random)), newSpeed)
                /\ nextObstacleX' = NextCursor(nextObstacleX)
                /\ created' = [obstacles |-> created.obstacles + 1,
                               collectibles |-> created.collectibles + 1]
                /\ last' = [Ran("gameLoop", "spawn") EXCEPT
                              !.ret = <<[random |-> random]>>]
         ELSE /\ obstacles' = ObstaclesAfterFrame(obstacles, newSpeed)
              /\ collectibles' = CollectiblesAfterFrame(collectibles, newSpeed)
              /\ UNCHANGED <<nextObstacleX, created>>
              /\ last' = Ran("gameLoop", "-")
      /\ particles' = UpdateParticles(particles)
      /\ gameState' = [gameState EXCEPT !.score = @ + 1]
      /\ UNCHANGED <<totalCoinsCollected, dogevisions, lives, maxLives,
                     isInvulnerable, shopState, activePowers, localStorage,
                     now, timeouts, hits>>

\* one frame, run while no collision effect is pending
Frame(types, draws) ==
  /\ effect = Idle
  /\ FrameUpdates(types, draws)
  /\ UNCHANGED effect

\* a frame that runs after a render and before that render's collision
\* effect: the effect then works on the player and the collectibles of its
\* render, while its updates are applied after those of the frame.  Explored
\* for renders in which the player touches no obstacle.
LateFrame(types, draws) ==
  /\ effect = Idle
  /\ last.op = "gameLoop"
  /\ ~PlayerHit
  /\ FrameUpdates(types, draws)
  /\ effect' = [at |-> "collectibles", activePowers |-> activePowers,
                coins |-> ReachedCoins(activePowers)]

\* the coins the second loop of the pending effect hands to collectCoin
PendingCoins ==
  IF "coins" \in DOMAIN effect THEN effect.coins
  ELSE ReachedCoins(effect.activePowers)

\* gameLoop, for as long as the score is within the bound
GameLoop ==
  /\ gameState.score < MaxScore
  /\ Frame(ObstacleTypes, RandomDraws)

(***************************************************************************)
(* Time passes: Date.now() moves on to the next instant at which a timeout *)
(* or the expiry of an active power falls due.                             *)
(***************************************************************************)
Deadlines ==
  {activePowers[id] : id \in DOMAIN activePowers}
    \cup {timeouts[i] : i \in 1..Len(timeouts)}

AdvanceClock ==
  /\ effect = Idle
  /\ \E t \in Deadlines : t > now /\ t <= MaxNow /\ now' = t
  /\ last' = Ran("clock", "-")
  /\ UNCHANGED <<gameState, totalCoinsCollected, dogevisions, lives, maxLives,
                 isInvulnerable, shopState, activePowers, player, obstacles,
                 collectibles, particles, worldOffset, nextObstacleX,
                 currentSpeed, localStorage, timeouts, effect, hits, created>>

(***************************************************************************)
(* The specification.  The geometry of a session is left to the            *)
(* environment here: whether the player meets an obstacle, and which       *)
(* collectible is in reach, are inputs of the collision effect.            *)
(***************************************************************************)
\* a collectible in reach of the player
ABone ==
  [x |-> PLAYER_X, y |-> GROUND_Y - BONE_SIZE, width |-> BONE_SIZE,
   height |-> BONE_SIZE, active |-> TRUE, collected |-> FALSE,
   animation |-> 0, value |-> COIN_VALUE]

Reachable ==
  IF gameState.coins < MaxCoins /\ totalCoinsCollected < MaxBank
  THEN {<<>>, <<ABone>>} ELSE {<<>>}

Next ==
  \/ ToggleShop
  \/ ExchangeForDogevision
  \/ \E id \in PowerIds : BuyPower(id)
  \/ \E id \in PowerIds : UsePower(id)
  \/ CheckPowerExpiration
  \/ Jump
  \/ StartGame
  \/ \E hit \in BOOLEAN : CollisionObstacles(hit)
  \/ \E reached \in Reachable : CollisionCollectibles(reached)
  \/ InvulnerabilityTimeout
  \/ GameLoop
  \/ AdvanceClock

Spec == Init /\ [][Next]_vars

(***************************************************************************)
(* The controls: the Space key and the click on the canvas, which share    *)
(* one dispatch, and the S key.                                            *)
(***************************************************************************)
\* a slip: the press is dropped while a game is playing
PrimaryChoice_Menu(playing, shopOpen) ==
  IF playing THEN "none" ELSE IF ~shopOpen THEN "startGame" ELSE "none"

\* what Space and the click call: jump while playing, else startGame unless
\* the shop is open
PrimaryChoice(playing, shopOpen) ==
  IF playing THEN "jump" ELSE IF ~shopOpen THEN "startGame" ELSE "none"

\* the handler ran and called nothing
Ignored(op) ==
  /\ effect = Idle
  /\ last' = Ran(op, "-")
  /\ UNCHANGED <<gameState, totalCoinsCollected, dogevisions, lives, maxLives,
                 isInvulnerable, shopState, activePowers, player, obstacles,
                 collectibles, particles, worldOffset, nextObstacleX,
                 currentSpeed, localStorage, now, timeouts, effect, hits,
                 created>>

PrimaryAction ==
  LET choice == PrimaryChoice(gameState.isPlaying, shopState.isOpen)
  IN  \/ choice = "jump" /\ Jump
      \/ choice = "startGame" /\ StartGame
      \/ choice = "none" /\ Ignored("primaryAction.ignored")

\* e.code === 'KeyS' && !gameState.isPlaying
ShopKeyActs(playing) == ~playing

ShopKey ==
  \/ ShopKeyActs(gameState.isPlaying) /\ ToggleShop
  \/ ~ShopKeyActs(gameState.isPlaying) /\ Ignored("shopKey.ignored")

ControlNext ==
  \/ PrimaryAction
  \/ ShopKey
  \/ \E hit \in BOOLEAN : CollisionObstacles(hit)
  \/ \E reached \in Reachable : CollisionCollectibles(reached)
  \/ InvulnerabilityTimeout
  \/ GameLoop
  \/ AdvanceClock

ControlSpec == Init /\ [][ControlNext]_vars

(***************************************************************************)
(* The hook with startGame called in any state: during a game, after one,  *)
(* with the shop open or closed.                                           *)
(***************************************************************************)
RestartNext ==
  \/ StartGameCall
  \/ ToggleShop
  \/ Jump
  \/ \E hit \in BOOLEAN : CollisionObstacles(hit)
  \/ \E reached \in Reachable : CollisionCollectibles(reached)
  \/ InvulnerabilityTimeout
  \/ GameLoop
  \/ AdvanceClock

RestartSpec == Init /\ [][RestartNext]_vars

(***************************************************************************)
(* checkCollision on its own, for every pair of boxes of a small grid.     *)

(***************************************************************************)
\* positions run from -1 to MaxBox, widths and heights from 0 to MaxBox
MaxBox == 2

Boxes ==
  [x : -1..MaxBox, y : -1..MaxBox, width : 0..MaxBox, height : 0..MaxBox]

\* checkCollision(obj1, obj2) is called, once; ret keeps the call and its
\* result
CheckCollisionCall ==
  /\ last.op = "init"
  /\ \E obj1 \in Boxes, obj2 \in Boxes :
       last' = [Ran("checkCollision", "-") EXCEPT
                  !.ret = <<[obj1 |-> obj1, obj2 |-> obj2,
                             result |-> CheckCollision(obj1, obj2)]>>]
  /\ UNCHANGED <<gameState, totalCoinsCollected, dogevisions, lives, maxLives,
                 isInvulnerable, shopState, activePowers, player, obstacles,
                 collectibles, particles, worldOffset, nextObstacleX,
                 currentSpeed, localStorage, now, timeouts, effect, hits,
                 created>>


BoxSpec == InitFrom(FirstVisit) /\ [][CheckCollisionCall]_vars

(***************************************************************************)
(* Construction over a localStorage that holds anything: keys that are     *)
(* absent, empty, numbers, and strings that are no numbers.                *)
(***************************************************************************)
StoredValues ==
  {<<>>, <<"0">>, <<"7">>, <<"4", "2">>, <<"a", "b", "c">>,
   <<"1", "2", "p", "x">>, <<"N", "a", "N">>}

\* the keys whose value varies; the other keys are absent
VariedKeys == {"dogeHighScore", "dogeTotalCoins", "dogeThreeLivesUses"}

AnyStores ==
  UNION {[keys -> StoredValues] : keys \in SUBSET VariedKeys}

StorageInit == \E store \in AnyStores : InitFrom(store)

StorageSpec == StorageInit /\ [][ToggleShop]_vars

(***************************************************************************)
(* The application as App.tsx wires the hook: usePower is called by        *)

(* startGame only.                                                         *)
(***************************************************************************)
AppNext ==
  \/ ToggleShop
  \/ ExchangeForDogevision
  \/ \E id \in PowerIds : BuyPower(id)
  \/ CheckPowerExpiration
  \/ Jump
  \/ StartGame
  \/ \E hit \in BOOLEAN : CollisionObstacles(hit)
  \/ \E reached \in Reachable : CollisionCollectibles(reached)
  \/ InvulnerabilityTimeout
  \/ GameLoop
  \/ AdvanceClock

AppSpec == Init /\ [][AppNext]_vars

(***************************************************************************)
(* The shop between two games, for balances that pay for every power and   *)
(* for an exchange.                                                        *)
(***************************************************************************)
ShopBalances == {24, 175, 2500}

\* a player who has exchanged before holds premium currency
PremiumHolder ==
  [ReturningWith(2500, 1) EXCEPT !["dogeDogevisions"] = ToString(300)]

ShopInit ==
  \E store \in {FirstVisit, PremiumHolder}
                 \cup {ReturningWith(b, 1) : b \in ShopBalances} :
    InitFrom(store)


ShopNext ==
  \/ ToggleShop
  \/ ExchangeForDogevision
  \/ \E id \in PowerIds : BuyPower(id)

ShopSpec == ShopInit /\ [][ShopNext]_vars

(***************************************************************************)
(* One pass of the collision effect, with its geometry: a session in       *)
(* progress reduced to the player, on the ground or at two heights of a    *)
(* jump, one obstacle and one collectible.                                 *)
(***************************************************************************)
\* all the uses bought have been taken
UsedUp ==
  [ReturningWith(30, 0) EXCEPT !["dogeThreeLivesUses"] = ToString(0)]

RECURSIVE Airborne(_)
\* the player frames frames after a jump from the ground
Airborne(frames) ==
  IF frames = 0
  THEN Jumped([x |-> PLAYER_X, y |-> GROUND_Y - PLAYER_HEIGHT, vy |-> 0,
               isJumping |-> FALSE, isGrounded |-> TRUE, jumpCount |-> 0])
  ELSE PlayerAfterFrame(Airborne(frames - 1))

PassPlayers ==
  {PlayerAfterFrame(Airborne(0)), Airborne(9), Airborne(18)}

\* the obstacle: under the player, or further on
PassObstacles ==
  {[x |-> ox, y |-> GROUND_Y - OBSTACLE_SIZE, width |-> OBSTACLE_SIZE,
    height |-> OBSTACLE_SIZE, active |-> TRUE, type |-> "rock"] :
     ox \in {130000, 400000}}

\* how far the centre of the coin is ahead of the centre of the player
PassAheads ==
  {0, 60000, 62500, 90000, 90500, 112000, 120000, 120500, 160000}

\* the coin: at the lowest or at a raised placement, fresh or just collected
PassCoins ==
  {[x |-> PLAYER_X + PLAYER_WIDTH \div 2 - BONE_SIZE \div 2 + ahead,
    y |-> GROUND_Y - up, width |-> BONE_SIZE, height |-> BONE_SIZE,
    active |-> ~done, collected |-> done, animation |-> 0,
    value |-> COIN_VALUE] :
     ahead \in PassAheads, up \in {60000, 90000}, done \in BOOLEAN}

\* the powers of the render at the instant t: each absent, running, or
\* lapsed and not yet swept
PassPowers(t) ==
  {NoPowers,
   [id \in {"double_collector"} |-> t + 1],
   [id \in {"double_collector"} |-> t],
   [id \in {"magnetic_collector"} |-> t + 1],
   [id \in {"magnetic_collector"} |-> t],
   [id \in {"double_collector", "magnetic_collector"} |-> t + 1]}

PassInit ==
  \E p \in PassPlayers, o \in PassObstacles, c \in PassCoins,
     powers \in PassPowers(5000) :
    /\ localStorage = UsedUp
    /\ gameState = [isPlaying |-> TRUE, score |-> 250, coins |-> 0,
                    highScore |-> ReadNumber(UsedUp, "dogeHighScore"),
                    highCoins |-> ReadNumber(UsedUp, "dogeHighCoins"),
                    gameOver |-> FALSE]
    /\ totalCoinsCollected = ReadNumber(UsedUp, "dogeTotalCoins")
    /\ dogevisions = ReadNumber(UsedUp, "dogeDogevisions")
    /\ lives = 1
    /\ maxLives = 1
    /\ isInvulnerable = FALSE
    /\ shopState = [isOpen |-> FALSE,
                    usesRemaining |->
                      [id \in PowerIds |-> ReadNumber(UsedUp, UsesKey(id))]]
    /\ activePowers = powers
    /\ player = p
    /\ obstacles = <<o>>
    /\ collectibles = <<c>>
    /\ particles = <<>>
    /\ worldOffset = 1093375
    /\ nextObstacleX = 1940000
    /\ currentSpeed = GetGameSpeed(249)
    /\ now = 5000
    /\ timeouts = <<>>
    /\ effect = Idle
    /\ hits = 0
    /\ created = [obstacles |-> 4, collectibles |-> 4]
    /\ last = Ran("gameLoop", "-")

PassNext ==
  \/ CollisionObstacles(PlayerHit)
  \/ CollisionCollectibles(ReachedCoins(effect.activePowers))
  \/ \E i \in 1..Len(collectibles) : CollectCoin(i)

PassSpec == PassInit /\ [][PassNext]_vars

(***************************************************************************)
(* The world of a session, with its geometry: from a first visit, games    *)
(* are started and played frame by frame, the player jumps at will, and    *)
(* the collision effect applies its own tests.                             *)
(***************************************************************************)
\* the frames of a session that are explored
MaxFrames == 176

WorldTypes == {"rock"}

\* the draws of Math.random() that are explored, in 1/1000: the first and
\* the last placement that can be selected
WorldDraws == {0, 999}

WorldLoop ==
  /\ gameState.score < MaxFrames
  /\ Frame(WorldTypes, WorldDraws)

WorldInit == InitFrom(FirstVisit)

WorldNext ==
  \/ StartGame
  \/ Jump
  \/ WorldLoop
  \/ CollisionObstacles(PlayerHit)
  \/ CollisionCollectibles(ReachedCoins(effect.activePowers))

WorldSpec == WorldInit /\ [][WorldNext]_vars

(***************************************************************************)
(* One game of a returning player who holds a use of the magnet, frame by  *)
(* frame: the collision effect runs after every frame, a key press falls   *)
(* between the effect and the next frame, and the game is not restarted.   *)
(***************************************************************************)
\* the frames of the game that are explored
MaxRunFrames == 240

\* the draw of Math.random() that is explored, in 1/1000: the first placement
RunDraws == {0}

MagnetHolder ==
  [ReturningWith(30, 0) EXCEPT !["dogeMagneticCollectorUses"] = ToString(1),
                               !["dogeThreeLivesUses"] = ToString(0)]

RunLoop ==
  /\ gameState.score < MaxRunFrames
  /\ Frame(WorldTypes, RunDraws)

RunNext ==
  \/ ~gameState.gameOver /\ StartGame
  \/ last.op # "gameLoop" /\ Jump
  \/ last.op # "gameLoop" /\ RunLoop
  \/ last.op = "gameLoop" /\ CollisionObstacles(PlayerHit)
  \/ CollisionCollectibles(ReachedCoins(effect.activePowers))

RunSpec == InitFrom(MagnetHolder) /\ [][RunNext]_vars

(***************************************************************************)
(* A session of a first visit in which the frames keep coming: the browser *)
(* calls the frame it was asked for (requestAnimationFrame in gameLoop and *)
(* in the loop effect) and React runs the collision effect after every     *)
(* render, so the frame and both loops of the effect are weakly fair.  The *)
(* session is cut at MaxLandFrames frames; a jump begins early enough to   *)
(* end before the cut.                                                     *)
(***************************************************************************)
MaxLandFrames == 200

\* the frames from a jump to the ground: JUMP_FORCE -11 against GRAVITY 0.5
LandingFrames == 43

LandLoop ==
  /\ last.op # "gameLoop"
  /\ gameState.score < MaxLandFrames
  /\ Frame(WorldTypes, RunDraws)

LandHits == last.op = "gameLoop" /\ CollisionObstacles(PlayerHit)

LandCoins == CollisionCollectibles(ReachedCoins(effect.activePowers))

LandNext ==
  \/ ~gameState.gameOver /\ StartGame
  \/ gameState.score + LandingFrames <= MaxLandFrames /\ last.op # "gameLoop"
       /\ Jump
  \/ LandLoop
  \/ LandHits
  \/ LandCoins

LandSpec ==
  /\ InitFrom(FirstVisit)
  /\ [][LandNext]_vars
  /\ WF_vars(LandLoop)
  /\ WF_vars(LandHits)
  /\ WF_vars(LandCoins)

(***************************************************************************)
(* The second loop of the collision effect over the positions of a bone    *)
(* around the player: every offset of the bone's corner from the player's  *)
(* corner on a grid of 5 pixels, from touching on one side to touching on  *)
(* the other, with and without the magnet.                                 *)
(***************************************************************************)
ReachInit ==
  \E p \in PassPlayers,
     dx \in {-BONE_SIZE, 1 - BONE_SIZE, PLAYER_WIDTH - 1, PLAYER_WIDTH}
              \cup {k * 5000 : k \in -12..11},
     dy \in {-BONE_SIZE, 1 - BONE_SIZE, PLAYER_HEIGHT - 1, PLAYER_HEIGHT}
              \cup {k * 5000 : k \in -12..13},
     powers \in {NoPowers, [id \in {"magnetic_collector"} |-> 5001],
                 [id \in {"magnetic_collector"} |-> 5000]} :
    /\ localStorage = UsedUp
    /\ gameState = [isPlaying |-> TRUE, score |-> 250, coins |-> 0,
                    highScore |-> ReadNumber(UsedUp, "dogeHighScore"),
                    highCoins |-> ReadNumber(UsedUp, "dogeHighCoins"),
                    gameOver |-> FALSE]
    /\ totalCoinsCollected = ReadNumber(UsedUp, "dogeTotalCoins")
    /\ dogevisions = ReadNumber(UsedUp, "dogeDogevisions")
    /\ lives = 1
    /\ maxLives = 1
    /\ isInvulnerable = FALSE
    /\ shopState = [isOpen |-> FALSE,
                    usesRemaining |->
                      [id \in PowerIds |-> ReadNumber(UsedUp, UsesKey(id))]]
    /\ activePowers = powers
    /\ player = p
    /\ obstacles = <<>>
    /\ collectibles =
         <<[x |-> p.x + dx, y |-> p.y + dy, width |-> BONE_SIZE,
            height |-> BONE_SIZE, active |-> TRUE, collected |-> FALSE,
            animation |-> 0, value |-> COIN_VALUE]>>
    /\ particles = <<>>
    /\ worldOffset = 1093375
    /\ nextObstacleX = 1940000
    /\ currentSpeed = GetGameSpeed(249)
    /\ now = 5000
    /\ timeouts = <<>>
    /\ effect = Idle
    /\ hits = 0
    /\ created = [obstacles |-> 4, collectibles |-> 4]
    /\ last = Ran("gameLoop", "-")

ReachNext ==
  \/ last.op = "gameLoop" /\ CollisionObstacles(PlayerHit)
  \/ CollisionCollectibles(ReachedCoins(effect.activePowers))

ReachSpec == ReachInit /\ [][ReachNext]_vars

(***************************************************************************)
(* The operations that write localStorage, for a player rich enough to     *)
(* exchange: the shop, startGame with its activations, the frames and the  *)
(* collision effect.  The store holds the balance only; the other keys are *)
(* absent.                                                                 *)
(***************************************************************************)
\* purchases are explored while the balance is above this floor
LedgerFloor == 1000

RichNewcomer == [k \in {"dogeTotalCoins"} |-> ToString(1100)]

LedgerNext ==
  \/ ToggleShop
  \/ ExchangeForDogevision
  \/ totalCoinsCollected > LedgerFloor /\ \E id \in PowerIds : BuyPower(id)
  \/ \E id \in PowerIds : UsePower(id)
  \/ StartGame
  \/ \E hit \in BOOLEAN : CollisionObstacles(hit)
  \/ \E reached \in Reachable : CollisionCollectibles(reached)
  \/ GameLoop

LedgerSpec == InitFrom(RichNewcomer) /\ [][LedgerNext]_vars

(***************************************************************************)
(* buyPower and exchangeForDogevision one localStorage.setItem at a time.  *)
(* The page can be closed between the two calls of a handler; the next     *)
(* visit then builds its state from what the store holds.  The state calls *)
(* of a handler (setTotalCoinsCollected, setShopState, ...) take effect    *)
(* when the handler returns, that is with its second write.                *)
(***************************************************************************)
\* a slip: the uses are written before the balance
BuyPowerWrites_CreditFirst(id) ==
  <<[key |-> UsesKey(id),
     value |-> ToString(UsesAfterPurchase(shopState.usesRemaining[id], id))],
    [key |-> "dogeTotalCoins",
     value |-> ToString(totalCoinsCollected - Cost(id))]>>

\* the setItem calls of buyPower, in the order of the code
BuyPowerWrites(id) ==
  <<[key |-> "dogeTotalCoins",
     value |-> ToString(totalCoinsCollected - Cost(id))],
    [key |-> UsesKey(id),
     value |-> ToString(UsesAfterPurchase(shopState.usesRemaining[id], id))]>>

\* the setItem calls of exchangeForDogevision, in the order of the code
ExchangeWrites ==
  LET maxExchangeable == MaxExchangeable(totalCoinsCollected)
  IN  <<[key |-> "dogeTotalCoins",
         value |-> ToString(totalCoinsCollected
                              - maxExchangeable * EXCHANGE_RATE)],
        [key |-> "dogeDogevisions",
         value |-> ToString(dogevisions
                              + maxExchangeable * DOGEVISION_PER_UNIT)]>>

\* buyPower up to and including its first setItem
BuyPowerFirst(id) ==
  /\ effect = Idle
  /\ shopState.usesRemaining[id] <= MaxStock
  /\ IF CannotAfford(totalCoinsCollected, id)
     THEN /\ UNCHANGED <<localStorage, effect>>
          /\ last' = Ran("buyPower.ignored", id)
     ELSE /\ localStorage' = SetItem(localStorage, BuyPowerWrites(id)[1].key,
                                     BuyPowerWrites(id)[1].value)
          /\ effect' = [at |-> "buyPower", activePowers |-> NoPowers,
                        id |-> id]
          /\ last' = Ran("buyPower.setItem", id)
  /\ UNCHANGED <<gameState, totalCoinsCollected, dogevisions, lives, maxLives,
                 isInvulnerable, shopState, activePowers, player, obstacles,
                 collectibles, particles, worldOffset, nextObstacleX,
                 currentSpeed, now, timeouts, hits, created>>

\* exchangeForDogevision up to and including its first setItem
ExchangeFirst ==
  /\ effect = Idle
  /\ IF MaxExchangeable(totalCoinsCollected) > 0
     THEN /\ localStorage' = SetItem(localStorage, ExchangeWrites[1].key,
                                     ExchangeWrites[1].value)
          /\ effect' = [at |-> "exchange", activePowers |-> NoPowers,
                        id |-> "-"]
          /\ last' = Ran("exchange.setItem", "-")
     ELSE /\ UNCHANGED <<localStorage, effect>>
          /\ last' = [Ran("exchange", "failure") EXCEPT
                        !.ret = <<ExchangeResult(FALSE, 0, 0)>>]
  /\ UNCHANGED <<gameState, totalCoinsCollected, dogevisions, lives, maxLives,
                 isInvulnerable, shopState, activePowers, player, obstacles,
                 collectibles, particles, worldOffset, nextObstacleX,
                 currentSpeed, now, timeouts, hits, created>>

\* the rest of the handler: its second setItem, then its state calls
SecondWrite ==
  /\ effect.at \in {"buyPower", "exchange"}
  /\ IF effect.at = "buyPower"
     THEN LET id == effect.id
              newTotal == totalCoinsCollected - Cost(id)
              newUsesRemaining ==
                UsesAfterPurchase(shopState.usesRemaining[id], id)
          IN  /\ localStorage' =
                   SetItem(localStorage, BuyPowerWrites(id)[2].key,
                           BuyPowerWrites(id)[2].value)
              /\ totalCoinsCollected' = newTotal
              /\ shopState' =
                   [isOpen |-> FALSE,
                    usesRemaining |->
                      [shopState.usesRemaining EXCEPT
                         ![id] = newUsesRemaining]]
              /\ last' = Ran("buyPower", id)
              /\ UNCHANGED dogevisions
     ELSE LET maxExchangeable == MaxExchangeable(totalCoinsCollected)
              osToSpend == maxExchangeable * EXCHANGE_RATE
              dogevisionsToAdd == maxExchangeable * DOGEVISION_PER_UNIT
          IN  /\ localStorage' =
                   SetItem(localStorage, ExchangeWrites[2].key,
                           ExchangeWrites[2].value)
              /\ totalCoinsCollected' = totalCoinsCollected - osToSpend
              /\ dogevisions' = dogevisions + dogevisionsToAdd
              /\ last' = [Ran("exchange", "success") EXCEPT
                            !.ret = <<ExchangeResult(TRUE, dogevisionsToAdd,
                                                     osToSpend)>>]
              /\ UNCHANGED shopState
  /\ effect' = Idle
  /\ UNCHANGED <<gameState, lives, maxLives, isInvulnerable, activePowers,
                 player, obstacles, collectibles, particles, worldOffset,
                 nextObstacleX, currentSpeed, now, timeouts, hits, created>>

\* the page is closed and opened again: the hook is constructed from the store
Crash ==
  /\ gameState' = [isPlaying |-> FALSE, score |-> 0, coins |-> 0,
                   highScore |-> ReadNumber(localStorage, "dogeHighScore"),
                   highCoins |-> ReadNumber(localStorage, "dogeHighCoins"),
                   gameOver |-> FALSE]
  /\ totalCoinsCollected' = ReadNumber(localStorage, "dogeTotalCoins")
  /\ dogevisions' = ReadNumber(localStorage, "dogeDogevisions")
  /\ lives' = 1
  /\ maxLives' = 1
  /\ isInvulnerable' = FALSE
  /\ shopState' = [isOpen |-> FALSE,
                   usesRemaining |->
                     [id \in PowerIds |->
                        ReadNumber(localStorage, UsesKey(id))]]
  /\ activePowers' = NoPowers
  /\ player' = [x |-> PLAYER_X, y |-> GROUND_Y - 60000, vy |-> 0,
                isJumping |-> FALSE, isGrounded |-> TRUE, jumpCount |-> 0]
  /\ obstacles' = <<>>
  /\ collectibles' = <<>>
  /\ particles' = <<>>
  /\ worldOffset' = 0
  /\ nextObstacleX' = CANVAS_WIDTH + 100000
  /\ currentSpeed' = BASE_SCROLL_SPEED
  /\ timeouts' = <<>>
  /\ effect' = Idle
  /\ last' = Ran("crash", effect.at)
  /\ UNCHANGED <<localStorage, now, hits, created>>

CrashNext ==
  \/ ToggleShop
  \/ \E id \in PowerIds : BuyPowerFirst(id)
  \/ ExchangeFirst
  \/ SecondWrite
  \/ Crash

CrashSpec == InitFrom(RichNewcomer) /\ [][CrashNext]_vars

(***************************************************************************)
(* A longer game of a returning player who holds a use of 3 lives, frame   *)
(* by frame: long enough for obstacles and missed collectibles to leave    *)
(* the screen.                                                             *)
(***************************************************************************)
\* the frames of the game that are explored
MaxLongFrames == 300

LongLoop ==
  /\ gameState.score < MaxLongFrames
  /\ Frame(WorldTypes, RunDraws)

LongNext ==
  \/ ~gameState.gameOver /\ StartGame
  \/ last.op # "gameLoop" /\ Jump
  \/ last.op # "gameLoop" /\ LongLoop
  \/ last.op = "gameLoop" /\ CollisionObstacles(PlayerHit)
  \/ CollisionCollectibles(ReachedCoins(effect.activePowers))

LongSpec == InitFrom(ReturningWith(30, 0)) /\ [][LongNext]_vars

(***************************************************************************)
(* The same game, where a frame may also run between a render and the      *)
(* collision effect of that render.                                        *)
(***************************************************************************)
RaceNext ==
  \/ ~gameState.gameOver /\ StartGame
  \/ last.op # "gameLoop" /\ Jump
  \/ last.op # "gameLoop" /\ RunLoop
  \/ gameState.score < MaxRunFrames /\ LateFrame(WorldTypes, RunDraws)
  \/ last.op = "gameLoop" /\ CollisionObstacles(PlayerHit)
  \/ CollisionCollectibles(PendingCoins)

RaceSpec == InitFrom(MagnetHolder) /\ [][RaceNext]_vars

(***************************************************************************)
(* The first spawn of a session, for every draw of Math.random() in        *)
(* 1/1000.                                                                 *)
(***************************************************************************)
\* the frames that are explored: the first spawn is made by the 26th
MaxPlacementFrames == 30

PlacementDraws == 0..999

PlacementLoop ==
  /\ gameState.score < MaxPlacementFrames
  /\ Frame(WorldTypes, PlacementDraws)

PlacementNext ==
  \/ StartGame
  \/ Jump
  \/ PlacementLoop
  \/ CollisionObstacles(PlayerHit)
  \/ CollisionCollectibles(ReachedCoins(effect.activePowers))

PlacementSpec == WorldInit /\ [][PlacementNext]_vars




(***************************************************************************)
(* The application in the hands of a player who holds no power yet and can *)
(* pay for one: every use comes from a purchase.                           *)
(***************************************************************************)
SeasonBalances == {25, 100}

SeasonInit == \E b \in SeasonBalances : InitFrom(EarnedOnly(b))

SeasonSpec == SeasonInit /\ [][AppNext]_vars


(***************************************************************************)
(* Properties.                                                             *)
(***************************************************************************)
\* a step of the collision effect's first loop in which the player's box
\* meets an obstacle's, so that loseLife is called
HitStep ==
  /\ effect = Idle
  /\ effect'.at = "collectibles"
  /\ last'.op \in {"loseLife", "loseLife.ignored"}

\* C1: in every reachable state 1 <= lives <= maxLives, and maxLives is 1
\* or 3, whatever the order of life losses, activations of powers, expiry
\* sweeps, game-overs and new games.
LivesInRange ==
  /\ 1 <= lives
  /\ lives <= maxLives
  /\ maxLives \in {1, 3}

\* C1: a game is on, a life was lost, and the sweep then removed the expired
\* 3-lives power while the player was still invulnerable
LivesInRange_Witness ==
  /\ last = Ran("checkPowerExpiration", "expired")
  /\ gameState.isPlaying
  /\ isInvulnerable
  /\ hits = 1
  /\ lives = 1
  /\ maxLives = 1

\* C2: loseLife on the last life, not invulnerable, ends the game and does
\* not decrement lives; loseLife with more than one life, not invulnerable,
\* takes exactly one life and does not end the game.
LoseLifeOutcome ==
  [][HitStep /\ ~isInvulnerable =>
       /\ lives = 1 =>
            /\ ~gameState'.isPlaying
            /\ gameState'.gameOver
            /\ lives' = lives
       /\ lives > 1 =>
            /\ lives' = lives - 1
            /\ gameState'.isPlaying
            /\ ~gameState'.gameOver]_vars

\* C2: the last life was lost in a collision and the game is over
LoseLifeOutcome_Witness ==
  /\ last = Ran("loseLife", "gameOver")
  /\ gameState.gameOver
  /\ ~gameState.isPlaying
  /\ lives = 1

\* the 2-second invulnerability window is open: the timeout that loseLife
\* set is pending
WindowOpen == timeouts # <<>>

GameOverStep == HitStep /\ ~isInvulnerable /\ lives = 1

HighScoresAreMaxima ==
  [][/\ GameOverStep =>
          /\ gameState'.highScore =
               (IF gameState.score > gameState.highScore
                THEN gameState.score ELSE gameState.highScore)
          /\ gameState'.highCoins =
               (IF gameState.coins > gameState.highCoins
                THEN gameState.coins ELSE gameState.highCoins)
          /\ "dogeHighScore" \in DOMAIN localStorage'
          /\ ParseInt(localStorage'["dogeHighScore"]) = gameState'.highScore
          /\ "dogeHighCoins" \in DOMAIN localStorage'
          /\ ParseInt(localStorage'["dogeHighCoins"]) = gameState'.highCoins
     /\ gameState'.highScore >= gameState.highScore
     /\ gameState'.highCoins >= gameState.highCoins
     /\ gameState'.highScore # gameState.highScore =>
          GameOverStep /\ gameState.score > gameState.highScore]_vars

\* C5: a game has ended with a score above the high score that an earlier
\* session had left, and the new high score is the stored one
HighScoresAreMaxima_Witness ==
  /\ last = Ran("loseLife", "gameOver")
  /\ effect.at = "collectibles"
  /\ gameState.score > 11
  /\ gameState.highScore = gameState.score
  /\ gameState.highCoins >= 1
  /\ "dogeHighScore" \in DOMAIN localStorage
  /\ localStorage["dogeHighScore"] = ToString(gameState.score)

\* a step in which jump is invoked
JumpStep ==
  /\ effect = Idle
  /\ last'.op \in {"jump", "jump.ignored"}

\* C6: jump invoked while the player is grounded with jumpCount = 0 sets
\* isGrounded = FALSE, jumpCount = 1 and the vertical velocity to JUMP_FORCE,
\* which is -11 pixels a frame, and changes neither the player's position nor
\* any state outside the player but the particles.
JumpFromGround ==
  [][JumpStep /\ player.isGrounded /\ player.jumpCount = 0 =>
       /\ ~player'.isGrounded
       /\ player'.jumpCount = 1
       /\ player'.vy = JUMP_FORCE
       /\ JUMP_FORCE = -11000
       /\ player'.x = player.x
       /\ player'.y = player.y
       /\ UNCHANGED <<gameState, totalCoinsCollected, dogevisions, lives,
                      maxLives, isInvulnerable, shopState, activePowers,
                      obstacles, collectibles, worldOffset, nextObstacleX,
                      currentSpeed, localStorage, now, timeouts>>]_vars

\* C6: the player has just jumped off the ground
JumpFromGround_Witness ==
  /\ last = Ran("jump", "-")
  /\ gameState.isPlaying
  /\ ~player.isGrounded
  /\ player.jumpCount = 1
  /\ player.vy = -11000
  /\ player.y = GROUND_Y - PLAYER_HEIGHT

\* C7: jump invoked while the player is airborne or jumpCount is not 0
\* changes neither the player's velocity, position, isGrounded nor
\* jumpCount; and 0 <= jumpCount <= maxJumps = 1 in every reachable state.
NoDoubleJump ==
  /\ [](player.jumpCount >= 0 /\ player.jumpCount <= MAX_JUMPS /\ MAX_JUMPS = 1)
  /\ [][JumpStep /\ (~player.isGrounded \/ player.jumpCount # 0) =>
          /\ player'.vy = player.vy
          /\ player'.x = player.x
          /\ player'.y = player.y
          /\ player'.isGrounded = player.isGrounded
          /\ player'.jumpCount = player.jumpCount]_vars

\* C7: jump was invoked, and ignored, while the player was in the air
NoDoubleJump_Witness ==
  /\ last = Ran("jump.ignored", "-")
  /\ ~player.isGrounded
  /\ player.jumpCount = 1
  /\ player.y < GROUND_Y - PLAYER_HEIGHT

\* a step in which usePower(id) is invoked on its own
UsePowerStep(id) ==
  /\ effect = Idle
  /\ last'.op \in {"usePower", "usePower.ignored"}
  /\ last'.arg = id

\* C8: usePower(id) for a power whose usesRemaining is 0 changes neither the
\* usesRemaining of any power, nor activePowers, lives, maxLives, the two
\* currency balances, nor any key of localStorage.
UsePowerWithoutUses ==
  [][\A id \in PowerIds :
       UsePowerStep(id) /\ shopState.usesRemaining[id] = 0 =>
         UNCHANGED <<shopState, activePowers, lives, maxLives,
                     totalCoinsCollected, dogevisions, localStorage>>]_vars

\* C8: usePower was invoked for the 3-lives power, which had no use left,
\* while another power was active and the record of uses was in localStorage
UsePowerWithoutUses_Witness ==
  /\ last = Ran("usePower.ignored", "three_lives")
  /\ shopState.usesRemaining["three_lives"] = 0
  /\ "dogeThreeLivesUses" \in DOMAIN localStorage
  /\ activePowers # NoPowers
  /\ lives = 1

\* a step in which buyPower(id) is invoked
BuyPowerStep(id) ==
  /\ effect = Idle
  /\ last'.op \in {"buyPower", "buyPower.ignored"}
  /\ last'.arg = id

\* C9: buyPower(id) with a total currency below the power's cost changes
\* neither the total currency, nor the usesRemaining of any power, nor the
\* shop's open flag, nor any key of localStorage.
BuyPowerWithoutFunds ==
  [][\A id \in PowerIds :
       BuyPowerStep(id) /\ totalCoinsCollected < Cost(id) =>
         UNCHANGED <<totalCoinsCollected, shopState, localStorage>>]_vars

\* C9: with the shop open and a balance of 30, buyPower was invoked for the
\* power that costs 50
BuyPowerWithoutFunds_Witness ==
  /\ last = Ran("buyPower.ignored", "magnetic_collector")
  /\ shopState.isOpen
  /\ totalCoinsCollected = 30

\* C10: buyPower(id) with a total currency of at least the power's cost, 25,
\* 50 or 100, takes exactly the cost from the total currency, adds exactly 2
\* to that power's usesRemaining and leaves that of the others, writes both
\* new values to localStorage and closes the shop; the total currency is
\* never negative.
BuyPowerWithFunds ==
  /\ [](totalCoinsCollected >= 0)
  /\ [][\A id \in PowerIds :
          BuyPowerStep(id) /\ totalCoinsCollected >= Cost(id) =>
            /\ Cost(id) = (CASE id = "double_collector" -> 25
                             [] id = "magnetic_collector" -> 50
                             [] id = "three_lives" -> 100)
            /\ totalCoinsCollected' = totalCoinsCollected - Cost(id)
            /\ shopState'.usesRemaining[id] = shopState.usesRemaining[id] + 2
            /\ \A other \in PowerIds \ {id} :
                 shopState'.usesRemaining[other] =
                   shopState.usesRemaining[other]
            /\ "dogeTotalCoins" \in DOMAIN localStorage'
            /\ ParseInt(localStorage'["dogeTotalCoins"]) = totalCoinsCollected'
            /\ UsesKey(id) \in DOMAIN localStorage'
            /\ ParseInt(localStorage'[UsesKey(id)]) =
                 shopState'.usesRemaining[id]
            /\ ~shopState'.isOpen]_vars

\* C10: the 3-lives power was bought for 100 from a balance of 175 with the
\* shop open, which closed it
BuyPowerWithFunds_Witness ==
  /\ last = Ran("buyPower", "three_lives")
  /\ totalCoinsCollected = 75
  /\ shopState.usesRemaining["three_lives"] = 3
  /\ localStorage["dogeTotalCoins"] = <<"7", "5">>
  /\ localStorage["dogeThreeLivesUses"] = <<"3">>
  /\ ~shopState.isOpen

\* C11: usePower(id) for a power that has a use left sets activePowers[id]
\* to now + duration * 1000 (30 s for the 2x collector, 999 s for the two
\* others), takes exactly one use from that power and from no other and
\* writes the new count to localStorage, sets lives = maxLives = 3 when id
\* is the 3-lives power and leaves them alone otherwise, and changes neither
\* currency balance.
UsePowerWithUses ==
  [][\A id \in PowerIds :
       UsePowerStep(id) /\ shopState.usesRemaining[id] > 0 =>
         /\ DOMAIN activePowers' = DOMAIN activePowers \cup {id}
         /\ activePowers'[id] =
              now + 1000 * (IF id = "double_collector" THEN 30 ELSE 999)
         /\ \A other \in DOMAIN activePowers \ {id} :
              activePowers'[other] = activePowers[other]
         /\ shopState'.usesRemaining[id] = shopState.usesRemaining[id] - 1
         /\ \A other \in PowerIds \ {id} :
              shopState'.usesRemaining[other] = shopState.usesRemaining[other]
         /\ UsesKey(id) \in DOMAIN localStorage'
         /\ ParseInt(localStorage'[UsesKey(id)]) = shopState'.usesRemaining[id]
         /\ id = "three_lives" => lives' = 3 /\ maxLives' = 3
         /\ id # "three_lives" => lives' = lives /\ maxLives' = maxLives
         /\ totalCoinsCollected' = totalCoinsCollected
         /\ dogevisions' = dogevisions]_vars

\* C11: the last use of the 2x collector was taken by usePower, with one
\* life and an unspent balance
UsePowerWithUses_Witness ==
  /\ last = Ran("usePower", "double_collector")
  /\ "double_collector" \in DOMAIN activePowers
  /\ activePowers["double_collector"] = now + 30000
  /\ shopState.usesRemaining["double_collector"] = 0
  /\ localStorage["dogeDoubleCollectorUses"] = <<"0">>
  /\ lives = 1
  /\ maxLives = 1
  /\ totalCoinsCollected = 30

\* C12: the usesRemaining of a power changes only when usePower takes one
\* use of it (on its own or within startGame) and when buyPower adds 2 to
\* it; frame ticks, collisions, coin collection, life loss, game-over, the
\* expiry sweep and the exchange leave every usesRemaining unchanged; and no
\* usesRemaining is ever negative.
UsesChangeByUseAndPurchase ==
  /\ [](\A id \in PowerIds : shopState.usesRemaining[id] >= 0)
  /\ [][/\ \A id \in PowerIds :
             shopState'.usesRemaining[id] # shopState.usesRemaining[id] =>
               \/ /\ effect = Idle
                  /\ last'.op \in {"usePower", "startGame"}
                  /\ shopState'.usesRemaining[id] =
                       shopState.usesRemaining[id] - 1
               \/ /\ effect = Idle
                  /\ last' = Ran("buyPower", id)
                  /\ shopState'.usesRemaining[id] =
                       shopState.usesRemaining[id] + 2
        /\ \/ effect # Idle
           \/ last'.op \in {"gameLoop", "collision", "loseLife",
                            "loseLife.ignored", "checkPowerExpiration",
                            "exchange", "invulnerabilityTimeout"}
           => shopState'.usesRemaining = shopState.usesRemaining]_vars

\* C12: a session with a frame tick, a lost life and a collected coin is
\* over, and the uses that startGame did not take are still there
UsesChangeByUseAndPurchase_Witness ==
  /\ gameState.gameOver
  /\ last = Ran("collectCoin", "-")
  /\ hits = 3
  /\ gameState.score > 10
  /\ shopState.usesRemaining["double_collector"] = 1
  /\ shopState.usesRemaining["three_lives"] = 0

\* a step in which startGame runs
StartGameStep ==
  /\ effect = Idle
  /\ last'.op = "startGame"

\* C13: startGame activates every power that has a use left, once, taking
\* exactly one use of it, and activates no power without a use; a purchase
\* from zero uses gives 2 uses, which nothing but startGame takes, so that
\* the power is active at the start of the next two games (2 uses, then 1)
\* and not at the start of the third (0 uses).
AutoActivationPerGame ==
  [][/\ StartGameStep =>
          \A id \in PowerIds :
            /\ shopState.usesRemaining[id] > 0 =>
                 /\ id \in DOMAIN activePowers'
                 /\ activePowers'[id] =
                      now + 1000 * (IF id = "double_collector" THEN 30 ELSE 999)
                 /\ shopState'.usesRemaining[id] =
                      shopState.usesRemaining[id] - 1
            /\ shopState.usesRemaining[id] = 0 =>
                 /\ id \notin DOMAIN activePowers'
                 /\ shopState'.usesRemaining[id] = 0
     /\ \A id \in PowerIds :
          /\ BuyPowerStep(id) /\ last'.op = "buyPower"
               /\ shopState.usesRemaining[id] = 0
               => shopState'.usesRemaining[id] = 2
          /\ shopState'.usesRemaining[id] < shopState.usesRemaining[id]
               => StartGameStep
          /\ id \notin DOMAIN activePowers /\ id \in DOMAIN activePowers'
               => StartGameStep]_vars

\* C13: the 2x collector was bought once, from zero uses, and both uses are
\* spent: a game has started without it
AutoActivationPerGame_Witness ==
  /\ last = Ran("startGame", "-")
  /\ gameState.isPlaying
  /\ "dogeDoubleCollectorUses" \in DOMAIN localStorage
  /\ localStorage["dogeDoubleCollectorUses"] = <<"0">>
  /\ shopState.usesRemaining["double_collector"] = 0
  /\ "double_collector" \notin DOMAIN activePowers
  /\ totalCoinsCollected < 25

\* a step in which exchangeForDogevision is invoked
ExchangeStep ==
  /\ effect = Idle
  /\ last'.op = "exchange"

ExchangeWithoutFunds ==
  [][ExchangeStep /\ totalCoinsCollected < 1000 =>
       /\ last'.ret = <<[success |-> FALSE, dogevisionsAdded |-> 0,
                         osSpent |-> 0]>>
       /\ totalCoinsCollected' = totalCoinsCollected
       /\ dogevisions' = dogevisions
       /\ localStorage' = localStorage]_vars

\* C15: the exchange was invoked on a first visit, with a total currency
\* of 0 and nothing in localStorage
ExchangeWithoutFunds_Witness ==
  /\ last.op = "exchange"
  /\ last.ret = <<[success |-> FALSE, dogevisionsAdded |-> 0, osSpent |-> 0]>>
  /\ totalCoinsCollected = 0
  /\ dogevisions = 0
  /\ DOMAIN localStorage = {}

HalfPixels(v) == v \div 500

\* C17: in the pass over the collectibles, a collectible that is not
\* collected and active is collected exactly if, with the magnet running in
\* the render's activePowers, the distance between its centre and the
\* player's is at most 150 pixels, and, without it, its box intersects the
\* player's.  dx2 and dy2 are twice the differences between the centres, so
\* that 150 pixels are 600 units of 500.
CollectionReach ==
  [][effect.at = "collectibles" =>
       \A i \in 1..Len(collectibles) :
         LET coin == collectibles[i]
             magnet == /\ "magnetic_collector" \in DOMAIN effect.activePowers
                       /\ effect.activePowers["magnetic_collector"] > now
             dx2 == (2 * player.x + 60000) - (2 * coin.x + coin.width)
             dy2 == (2 * player.y + 70000) - (2 * coin.y + coin.height)
             near == /\ dx2 % 500 = 0
                     /\ dy2 % 500 = 0
                     /\ HalfPixels(dx2) * HalfPixels(dx2)
                          + HalfPixels(dy2) * HalfPixels(dy2) <= 600 * 600
             touch == /\ player.x < coin.x + coin.width
                      /\ player.x + 60000 > coin.x
                      /\ player.y < coin.y + coin.height
                      /\ player.y + 70000 > coin.y
         IN  ~coin.collected /\ coin.active =>
               /\ dx2 % 500 = 0 /\ dy2 % 500 = 0
               /\ collectibles'[i].collected <=>
                    IF magnet THEN near ELSE touch]_vars

\* C17: with the magnet running, a collectible 140 pixels away whose box
\* is clear of the player's has been collected
CollectionReach_Witness ==
  /\ last.op = "collectCoin"
  /\ effect = Idle
  /\ "magnetic_collector" \in DOMAIN activePowers
  /\ activePowers["magnetic_collector"] > now
  /\ player.y = 353500
  /\ Len(collectibles) = 1
  /\ collectibles[1].collected
  /\ collectibles[1].x = 209500
  /\ collectibles[1].y = 440000

\* a step in which gameLoop runs a frame
TickStep ==
  /\ last'.op = "gameLoop"
  /\ gameState'.score = gameState.score + 1

\* the scores for which the speed is computed
MaxSpeedScore == 5000

\* the speed is min(4 + score * 0.003, 16) for every score
SpeedLaw ==
  /\ \A score \in 0..MaxSpeedScore :
       /\ GetGameSpeed(score) =
            IF 4000 + score * 3 <= 16000 THEN 4000 + score * 3 ELSE 16000
       /\ GetGameSpeed(score) >= 4000
       /\ GetGameSpeed(score) <= 16000
       /\ score > 0 => GetGameSpeed(score) >= GetGameSpeed(score - 1)
  /\ GetGameSpeed(0) = 4000
  /\ GetGameSpeed(2000) = 10000
  /\ GetGameSpeed(4000) = 16000
  /\ GetGameSpeed(4001) = 16000

\* C18: the speed is min(4 + score * 0.003, 16) for every score from 0 on
\* (10 at the score 2000); in every frame the speed is that of the score the
\* frame starts with, between 4 and 16, the world offset grows by exactly
\* that speed, and the speed does not decrease from step to step except
\* where startGame begins a session.
SpeedFollowsScore ==
  [][/\ SpeedLaw
     /\ TickStep =>
          /\ currentSpeed' =
               IF 4000 + gameState.score * 3 <= 16000
               THEN 4000 + gameState.score * 3 ELSE 16000
          /\ currentSpeed' >= 4000
          /\ currentSpeed' <= 16000
          /\ worldOffset' = worldOffset + currentSpeed'
     /\ ~TickStep => worldOffset' = worldOffset \/ last'.op = "startGame"
     /\ last'.op # "startGame" =>
          /\ currentSpeed' >= currentSpeed
          /\ gameState'.score >= gameState.score]_vars

\* C18: fifty frames into a session the speed has grown with the score
SpeedFollowsScore_Witness ==
  /\ last.op = "gameLoop"
  /\ gameState.score = 50
  /\ currentSpeed = 4147
  /\ worldOffset = 203675

SpawnLockstep_Restart ==
  /\ last.op = "startGame"
  /\ gameState.highScore > 100
  /\ nextObstacleX = 900000
  /\ created = [obstacles |-> 0, collectibles |-> 0]

\* the cumulative weights of the eight placements, in 1/1000
CumulativeWeights == <<450, 750, 900, 950, 980, 1000, 1000, 1000>>

\* the first placement, counted from 0, whose cumulative weight is at least r
FirstAtLeast(r) ==
  CHOOSE i \in 0..7 :
    /\ CumulativeWeights[i + 1] >= r
    /\ \A j \in 0..(i - 1) : CumulativeWeights[j + 1] < r

\* the selection made for every draw
SelectionLaw ==
  \A r \in 0..999 :
    /\ SelectedIndex(r) = FirstAtLeast(r)
    /\ SelectedIndex(r) \in 0..5

\* C20: for every draw r of Math.random(), in 1/1000 from 0 to 0.999, the
\* placement selected is the first whose cumulative weight is at least r;
\* it is one of the placements 0 to 5, never 6 or 7; and the collectible of
\* a spawn is put where that placement says.
PlacementByWeight ==
  [][/\ SelectionLaw
     /\ TickStep /\ last'.arg = "spawn" =>
          LET r == last'.ret[1].random
              bone == collectibles'[Len(collectibles')]
              index == FirstAtLeast(r)
              dx == <<60000, 100000, 140000, 80000, 120000, 90000>>
              up == <<60000, 60000, 60000, 75000, 75000, 90000>>
          IN  /\ index \in 0..5
              /\ bone.x + worldOffset' = nextObstacleX + 60000 + dx[index + 1]
              /\ bone.y = 500000 - up[index + 1]
              /\ ~bone.collected /\ bone.active]_vars

\* C20: draws on both sides of a cumulative weight: 0.45 selects the
\* placement 0
PlacementByWeight_Witness ==
  /\ last.op = "gameLoop"
  /\ last.arg = "spawn"
  /\ last.ret = <<[random |-> 450]>>
  /\ Len(collectibles) = 1
  /\ collectibles[1].x + worldOffset = 900000 + 60000 + 60000
  /\ collectibles[1].y = 440000


\* C21: checkCollision(a, b) = checkCollision(b, a) for all boxes a and b;
\* the result is that the boxes overlap on both axes, which reads the same
\* from either side, so that boxes with no overlap on an axis do not
\* intersect.
CollisionSymmetric ==
  last.op = "checkCollision" =>
    LET a == last.ret[1].obj1
        b == last.ret[1].obj2
    IN  /\ last.ret[1].result = CheckCollision(b, a)
        /\ last.ret[1].result <=>
             /\ a.x < b.x + b.width /\ b.x < a.x + a.width
             /\ a.y < b.y + b.height /\ b.y < a.y + a.height

\* C21: two different boxes that overlap have been compared
CollisionSymmetric_Witness ==
  /\ last.op = "checkCollision"
  /\ last.ret[1].result
  /\ last.ret[1].obj1 = [x |-> 1, y |-> 0, width |-> 2, height |-> 1]
  /\ last.ret[1].obj2 = [x |-> 0, y |-> -1, width |-> 2, height |-> 2]

\* the numbers the construction reads, with the key of each
StoredNumbers ==
  <<[key |-> "dogeHighScore", value |-> gameState.highScore],
    [key |-> "dogeHighCoins", value |-> gameState.highCoins],
    [key |-> "dogeTotalCoins", value |-> totalCoinsCollected],
    [key |-> "dogeDogevisions", value |-> dogevisions],
    [key |-> "dogeDoubleCollectorUses",
     value |-> shopState.usesRemaining["double_collector"]],
    [key |-> "dogeMagneticCollectorUses",
     value |-> shopState.usesRemaining["magnetic_collector"]],
    [key |-> "dogeThreeLivesUses",
     value |-> shopState.usesRemaining["three_lives"]]>>

\* a string of digits only, and of one at least
IsNumeral(str) ==
  /\ str # <<>>
  /\ \A i \in 1..Len(str) : IsDigit(str[i])

\* C22: a persisted number reads as 0 when its key is absent and when the
\* stored value is no number; no read leaves a non-number in the state.
StoredNumbersReadAsNumbers ==
  \A i \in 1..Len(StoredNumbers) :
    LET key == StoredNumbers[i].key
        value == StoredNumbers[i].value
    IN  /\ value # NaN
        /\ key \notin DOMAIN localStorage => value = 0
        /\ key \in DOMAIN localStorage /\ ~IsNumeral(localStorage[key])
             => value = 0

\* C22: what the construction does: an absent key and an empty string read
\* as 0, a string that starts with digits as the number they spell, and any
\* other string as NaN
StoredNumbersAsParsed ==
  \A i \in 1..Len(StoredNumbers) :
    LET key == StoredNumbers[i].key
        value == StoredNumbers[i].value
        stored == IF key \in DOMAIN localStorage THEN localStorage[key]
                  ELSE <<>>
    IN  /\ stored = <<>> => value = 0
        /\ stored # <<>> /\ ~IsDigit(stored[1]) => value = NaN
        /\ stored = <<"1", "2", "p", "x">> => value = 12
        /\ IsNumeral(stored) => value >= 0 /\ ToString(value) = stored

\* C22: the high score was stored as "abc" and the state holds NaN
StoredNumbersAsParsed_Witness ==
  /\ "dogeHighScore" \in DOMAIN localStorage
  /\ localStorage["dogeHighScore"] = <<"a", "b", "c">>
  /\ gameState.highScore = NaN
  /\ shopState.isOpen


\* everything but the record of the last operation is unchanged
NothingChanges ==
  UNCHANGED <<gameState, totalCoinsCollected, dogevisions, lives, maxLives,
              isInvulnerable, shopState, activePowers, player, obstacles,
              collectibles, particles, worldOffset, nextObstacleX,
              currentSpeed, localStorage, now, timeouts, effect, hits,
              created>>

ControlsDispatch_ShopKeyInGame ==
  /\ last = Ran("shopKey.ignored", "-")
  /\ gameState.isPlaying
  /\ ~shopState.isOpen


\* C24: startGame leaves a game playing and not over with score 0 and
\* coins 0, the player on the ground at x = 100, y = GROUND_Y - 70 with
\* velocity 0 and jumpCount 0, no obstacle, collectible or particle,
\* worldOffset 0, the spawn cursor at CANVAS_WIDTH + 100, the base speed, no
\* invulnerability, the shop closed, and 3 lives out of 3 if the 3-lives
\* power had a use left, 1 out of 1 otherwise; the records and both
\* currencies are as before.
StartGameResets ==
  [][StartGameStep =>
       /\ gameState'.isPlaying
       /\ ~gameState'.gameOver
       /\ gameState'.score = 0
       /\ gameState'.coins = 0
       /\ player'.x = 100000
       /\ player'.y = 500000 - 70000
       /\ player'.vy = 0
       /\ player'.isGrounded
       /\ player'.jumpCount = 0
       /\ obstacles' = <<>>
       /\ collectibles' = <<>>
       /\ particles' = <<>>
       /\ worldOffset' = 0
       /\ nextObstacleX' = 800000 + 100000
       /\ currentSpeed' = 4000
       /\ ~isInvulnerable'
       /\ ~shopState'.isOpen
       /\ lives' = maxLives'
       /\ lives' = IF shopState.usesRemaining["three_lives"] > 0 THEN 3 ELSE 1
       /\ gameState'.highScore = gameState.highScore
       /\ gameState'.highCoins = gameState.highCoins
       /\ totalCoinsCollected' = totalCoinsCollected
       /\ dogevisions' = dogevisions]_vars

\* C24: startGame was called with the player in the air, in a game that had
\* taken the last use of the 3-lives power
StartGameResets_Witness ==
  /\ last = Ran("startGame", "-")
  /\ player.isJumping
  /\ player.isGrounded
  /\ player.y = 430000
  /\ player.vy = 0
  /\ lives = 1
  /\ maxLives = 1
  /\ "dogeThreeLivesUses" \in DOMAIN localStorage
  /\ localStorage["dogeThreeLivesUses"] = <<"0">>
  /\ gameState.isPlaying

\* C24: startGame took a use of the 3-lives power with the shop open
StartGameResets_ThreeLives ==
  /\ last = Ran("startGame", "-")
  /\ lives = 3
  /\ maxLives = 3
  /\ ~shopState.isOpen
  /\ shopState.usesRemaining["three_lives"] = 0



\* C25: once game over has stopped the game, no frame takes effect: the
\* score, the world offset, the spawn cursor, the player, the obstacles and
\* the collectibles stay as they are until the next startGame; in
\* particular the score does not exceed the high score while the game is
\* over.
FrozenAfterGameOver ==
  /\ gameState.gameOver => gameState.score <= gameState.highScore
  /\ gameState.gameOver => ~gameState.isPlaying

\* C25: what holds: from the end of the collision pass that ended the game
\* on, nothing of the world changes until startGame, and no frame runs
\* while no game is playing; within that pass, collectCoin still credits
\* the collectibles in reach.
NoFrameAfterGameOver ==
  [][/\ ~gameState.isPlaying /\ effect = Idle /\ last'.op # "startGame" =>
          UNCHANGED <<gameState, worldOffset, nextObstacleX, player,
                      obstacles, collectibles, currentSpeed>>
     /\ ~gameState.isPlaying /\ effect # Idle =>
          /\ UNCHANGED <<worldOffset, nextObstacleX, player, obstacles,
                         currentSpeed>>
          /\ gameState'.score >= gameState.score
          /\ gameState'.highScore = gameState.highScore
     /\ TickStep => gameState.isPlaying]_vars

\* C25: the game is over and the score is above the high score that game
\* over has just recorded
NoFrameAfterGameOver_Witness ==
  /\ gameState.gameOver
  /\ ~gameState.isPlaying
  /\ effect = Idle
  /\ last.op = "collectCoin"
  /\ gameState.score = gameState.highScore + 10
  /\ gameState.coins = 1
  /\ hits = 1
  /\ \E i \in DOMAIN collectibles : collectibles[i].collected


\* C26: every spawned collectible is credited at most once, whatever the
\* order of the frames and of the collision passes: with no doubling power,
\* the coins credited in a game never outnumber the collectibles spawned in
\* it.
CreditedAtMostOnce == gameState.coins <= created.collectibles

\* the collectibles of the collection that can still be credited
Creditable(coins) == SelectSeq(coins, LAMBDA c : ~c.collected /\ c.active)

\* C26: what holds: a second loop that runs on the collection of its own
\* render marks every collectible it credits, and a marked collectible is
\* not credited again; a second loop that runs after a later frame credits
\* without marking.
CreditMarksUnlessLate ==
  [][effect.at = "collectibles" =>
       LET credited == gameState'.coins - gameState.coins
           left == Len(Creditable(collectibles'))
       IN  IF "coins" \in DOMAIN effect
           THEN /\ credited = Len(effect.coins)
                /\ collectibles' = collectibles
           ELSE /\ credited = Len(ReachedCoins(effect.activePowers))
                /\ left = Len(Creditable(collectibles)) - credited]_vars

\* C26: two coins have been credited and every collectible spawned is still
\* there to be credited
CreditMarksUnlessLate_Witness ==
  /\ gameState.coins = 2
  /\ created.collectibles = 3
  /\ Len(Creditable(collectibles)) = 3
  /\ gameState.isPlaying
  /\ effect = Idle
  /\ last.op = "collectCoin"


\* a run of checkPowerExpiration
SweepStep == last'.op = "checkPowerExpiration"

\* C27: a run of the expiry sweep removes exactly the entries of
\* activePowers whose expiry is at or before the current time and keeps the
\* later ones as they are; when the 3-lives entry is removed, lives and
\* maxLives become 1; when nothing has expired, activePowers, lives and
\* maxLives are unchanged.
SweepRemovesExpired ==
  [][SweepStep =>
       LET due == {id \in DOMAIN activePowers : activePowers[id] <= now}
       IN  /\ DOMAIN activePowers' = DOMAIN activePowers \ due
           /\ \A id \in DOMAIN activePowers' :
                /\ activePowers[id] > now
                /\ activePowers'[id] = activePowers[id]
           /\ "three_lives" \in due => lives' = 1 /\ maxLives' = 1
           /\ due = {} => UNCHANGED <<activePowers, lives, maxLives>>]_vars

\* C27: a sweep has just removed the 3-lives entry at the very instant of
\* its expiry and has kept a later entry
SweepRemovesExpired_Witness ==
  /\ last = Ran("checkPowerExpiration", "expired")
  /\ "three_lives" \notin DOMAIN activePowers
  /\ \E id \in DOMAIN activePowers : activePowers[id] > now
  /\ shopState.usesRemaining["three_lives"] = 0
  /\ lives = 1
  /\ maxLives = 1
  /\ gameState.isPlaying
  /\ hits = 0

\* C27: a sweep has found nothing to remove while three lives are active
SweepRemovesExpired_Idle ==
  /\ last = Ran("checkPowerExpiration", "none")
  /\ "three_lives" \in DOMAIN activePowers
  /\ lives = 3
  /\ maxLives = 3


\* what a sweep and a collision pass both work on
Contested ==
  [activePowers |-> activePowers, lives |-> lives, maxLives |-> maxLives,
   isInvulnerable |-> isInvulnerable, isPlaying |-> gameState.isPlaying]

\* checkPowerExpiration on that part of the state
AfterSweep(s) ==
  LET expired == Expired(s.activePowers, now)
      threeLives == "three_lives" \in expired
  IN  [s EXCEPT
         !.activePowers = [id \in DOMAIN @ \ expired |-> @[id]],
         !.lives = IF threeLives THEN 1 ELSE @,
         !.maxLives = IF threeLives THEN 1 ELSE @]

\* a collision pass in which the player meets an obstacle, on that part of
\* the state: the effect returns when no game is playing, loseLife returns
\* when the player is invulnerable, takes a life when one is spare, and
\* calls gameOver otherwise
AfterHit(s) ==
  IF ~s.isPlaying \/ s.isInvulnerable THEN s
  ELSE IF HasSpareLife(s.lives)
  THEN [s EXCEPT !.lives = LifeAfterHit(@), !.isInvulnerable = TRUE]
  ELSE [s EXCEPT !.activePowers = NoPowers, !.lives = 1, !.maxLives = 1,
                 !.isInvulnerable = FALSE, !.isPlaying = FALSE]

\* the sweep is due to remove the 3-lives entry while a hit would take a
\* spare life
SpareLifeExpiring ==
  /\ gameState.isPlaying
  /\ ~isInvulnerable
  /\ lives > 1
  /\ "three_lives" \in DOMAIN activePowers
  /\ activePowers["three_lives"] <= now

\* C28: the expiry sweep and the collision pass write no common state, so
\* a sweep and a pass give the same outcome in either order.
SweepOrderIrrelevant ==
  AfterSweep(AfterHit(Contested)) = AfterHit(AfterSweep(Contested))

\* C28: what holds: the sweep writes activePowers, lives and maxLives only,
\* a frame writes none of them, and a sweep and a pass with a hit give the
\* same outcome in either order except when the sweep is due to remove the
\* 3-lives entry while a spare life is left: then the hit costs a life if
\* the pass runs first and ends the game if the sweep runs first.
SweepOrderMattersForSpareLife ==
  [][/\ SweepStep =>
          UNCHANGED <<gameState, totalCoinsCollected, dogevisions,
                      isInvulnerable, shopState, player, obstacles,
                      collectibles, particles, worldOffset, nextObstacleX,
                      currentSpeed, localStorage, timeouts>>
     /\ SweepStep => Contested' = AfterSweep(Contested)
     /\ HitStep => Contested' = AfterHit(Contested)
     /\ TickStep => UNCHANGED <<activePowers, lives, maxLives>>
     /\ IF SpareLifeExpiring
        THEN /\ AfterSweep(AfterHit(Contested)).isPlaying
             /\ AfterSweep(AfterHit(Contested)).lives = 1
             /\ ~AfterHit(AfterSweep(Contested)).isPlaying
        ELSE AfterSweep(AfterHit(Contested))
               = AfterHit(AfterSweep(Contested))]_vars

\* C28: the 3-lives entry has just expired with three lives left, and
\* neither the sweep nor a collision pass has run yet
SweepOrderMattersForSpareLife_Witness ==
  /\ SpareLifeExpiring
  /\ activePowers["three_lives"] = now
  /\ lives = 3
  /\ maxLives = 3
  /\ hits = 0
  /\ effect = Idle
  /\ last.op = "clock"


\* C29: a frame adds GRAVITY to the vertical velocity, then the velocity to
\* y; when the result is at or below the ground (y >= GROUND_Y - height) the
\* player is put on the ground with zero velocity, isGrounded true and
\* jumpCount 0, otherwise isGrounded is false; so after every frame the
\* player is not below the ground, and is grounded exactly when on it.
GravityThenGround ==
  [][TickStep =>
       LET vy == player.vy + GRAVITY
           y == player.y + vy
           groundY == GROUND_Y - PLAYER_HEIGHT
       IN  /\ y >= groundY =>
                /\ player'.y = groundY
                /\ player'.vy = 0
                /\ player'.isGrounded
                /\ player'.jumpCount = 0
           /\ y < groundY =>
                /\ player'.y = y
                /\ player'.vy = vy
                /\ ~player'.isGrounded
                /\ player'.jumpCount = player.jumpCount
           /\ player'.x = player.x
           /\ player'.y <= groundY
           /\ player'.isGrounded <=> player'.y = groundY]_vars

\* C29: a frame has left the player in the air, on the way down
GravityThenGround_Witness ==
  /\ last.op = "gameLoop"
  /\ player.y < GROUND_Y - PLAYER_HEIGHT
  /\ player.vy > 0
  /\ ~player.isGrounded
  /\ player.jumpCount = 1

\* C29: a frame has put the player back on the ground after a jump
GravityThenGround_Landed ==
  /\ last.op = "gameLoop"
  /\ player.y = GROUND_Y - PLAYER_HEIGHT
  /\ player.vy = 0
  /\ player.isGrounded
  /\ player.jumpCount = 0
  /\ ~player.isJumping
  /\ gameState.score = 44
  /\ worldOffset > 0


\* the collectible's box ends at or above the ground line
AboveGround(c) == c.y + c.height <= GROUND_Y

\* C30: every collectible spawned is in the air: its box of 65 by 65 ends
\* at or above the ground line (y + height <= GROUND_Y), for each of the 8
\* placements.
BonesAirborne ==
  \A i \in DOMAIN collectibles :
    /\ collectibles[i].width = 65000
    /\ collectibles[i].height = 65000
    /\ AboveGround(collectibles[i])

\* C30: what holds: every collectible spawned is 65 by 65 with its top edge
\* 60, 75 or 90 pixels above the ground line; a collectible of the first
\* three placements (top edge 60 pixels up) reaches 5 pixels below the
\* ground line, the others end above it.
BonesTopAboveGround ==
  \A i \in DOMAIN collectibles :
    LET c == collectibles[i]
    IN  /\ c.width = 65000
        /\ c.height = 65000
        /\ c.y \in {GROUND_Y - 60000, GROUND_Y - 75000, GROUND_Y - 90000}
        /\ c.y + c.height <= GROUND_Y + 5000
        /\ AboveGround(c) <=> c.y < GROUND_Y - 60000

\* C30: a collectible of the first placement has been spawned: its box
\* reaches 5 pixels below the ground line
BonesTopAboveGround_Witness ==
  /\ created.collectibles = 1
  /\ last.op = "gameLoop"
  /\ last.arg = "spawn"
  /\ last.ret = <<[random |-> 0]>>
  /\ Len(collectibles) = 1
  /\ collectibles[1].y = GROUND_Y - 60000
  /\ collectibles[1].y + collectibles[1].height = GROUND_Y + 5000

\* C30: a collectible of a higher placement has been spawned: its box ends
\* above the ground line
BonesTopAboveGround_Higher ==
  /\ created.collectibles = 1
  /\ Len(collectibles) = 1
  /\ AboveGround(collectibles[1])
  /\ collectibles[1].y = GROUND_Y - 90000


\* the length two boxes share on each axis; zero or less when they only
\* touch or lie apart
OverlapX(a, b) == Min(a.x + a.width, b.x + b.width) - Max(a.x, b.x)
OverlapY(a, b) == Min(a.y + a.height, b.y + b.height) - Max(a.y, b.y)

EdgesStrict_Corner ==
  /\ last.op = "checkCollision"
  /\ ~last.ret[1].result
  /\ last.ret[1].obj1 = [x |-> 0, y |-> 0, width |-> 1, height |-> 1]
  /\ last.ret[1].obj2 = [x |-> 1, y |-> 1, width |-> 1, height |-> 1]


\* the entity as the frame moves it: x decreased by the speed
MovedBy(e, speed) == [e EXCEPT !.x = @ - speed]

\* C32: after every frame, no obstacle and no collectible left in its
\* collection has x + width < -100 and no collectible left is inactive;
\* conversely every obstacle that the frame moves to x + width >= -100, and
\* every active collectible it moves there, is still in its collection; and
\* every entity left has moved left by exactly the speed of the frame.
FramePrunes ==
  [][TickStep =>
       LET speed == currentSpeed'
           spawned == Len(obstacles') + Len(collectibles')
                        > Len(obstacles) + Len(collectibles)
       IN  /\ \A i \in DOMAIN obstacles' :
                obstacles'[i].x + obstacles'[i].width >= -100000
           /\ \A i \in DOMAIN collectibles' :
                /\ collectibles'[i].x + collectibles'[i].width >= -100000
                /\ collectibles'[i].active
           /\ \A i \in DOMAIN obstacles :
                obstacles[i].x - speed + obstacles[i].width >= -100000 =>
                  \E j \in DOMAIN obstacles' :
                    obstacles'[j] = MovedBy(obstacles[i], speed)
           /\ \A i \in DOMAIN collectibles :
                /\ collectibles[i].active
                /\ collectibles[i].x - speed + collectibles[i].width >= -100000
                => \E j \in DOMAIN collectibles' :
                     /\ collectibles'[j].x = collectibles[i].x - speed
                     /\ collectibles'[j].y = collectibles[i].y
                     /\ collectibles'[j].collected = collectibles[i].collected
           /\ \A j \in DOMAIN obstacles' :
                \/ \E i \in DOMAIN obstacles :
                     obstacles'[j] = MovedBy(obstacles[i], speed)
                \/ /\ j = Len(obstacles')
                   /\ created'.obstacles = created.obstacles + 1
                   /\ obstacles'[j].x = nextObstacleX - worldOffset - speed
           /\ \A j \in DOMAIN collectibles' :
                \/ \E i \in DOMAIN collectibles :
                     collectibles'[j].x = collectibles[i].x - speed
                \/ /\ j = Len(collectibles')
                   /\ created'.collectibles = created.collectibles + 1]_vars

\* C32: a frame has just pruned the first obstacle and, before it, a
\* collected collectible; a collectible that was missed is still on its way
\* out
FramePrunes_Witness ==
  /\ last.op = "gameLoop"
  /\ created.obstacles > Len(obstacles)
  /\ Len(obstacles) >= 3
  /\ obstacles[1].x > 0
  /\ gameState.isPlaying

\* C32: a frame has just pruned a collectible that was never collected
FramePrunes_Missed ==
  /\ last.op = "gameLoop"
  /\ gameState.coins = 0
  /\ created.collectibles > Len(collectibles)


\* the phase of the game: menu, playing or game over
Phase == <<gameState.isPlaying, gameState.gameOver>>

\* C33: isPlaying and gameOver are never both true and the shop is never
\* open while a game is playing; the phase changes only by startGame, from
\* not playing to playing, and by game-over, from playing to game over.
PhasesInOrder ==
  [][/\ ~(gameState.isPlaying /\ gameState.gameOver)
     /\ ~(gameState'.isPlaying /\ gameState'.gameOver)
     /\ ~(gameState.isPlaying /\ shopState.isOpen)
     /\ ~(gameState'.isPlaying /\ shopState'.isOpen)
     /\ Phase' # Phase =>
          \/ /\ ~gameState.isPlaying
             /\ Phase' = <<TRUE, FALSE>>
             /\ gameState'.score = 0
             /\ hits' = 0
          \/ /\ Phase = <<TRUE, FALSE>>
             /\ Phase' = <<FALSE, TRUE>>
             /\ hits' = hits + 1
             /\ lives = 1]_vars

\* C33: a second game has been started from the game-over screen, after the
\* shop was opened and closed there
PhasesInOrder_Witness ==
  /\ Phase = <<TRUE, FALSE>>
  /\ last.op = "startGame"
  /\ gameState.highScore > 11
  /\ ~shopState.isOpen

\* C33: the shop is open on the game-over screen
PhasesInOrder_ShopAfterGame ==
  /\ Phase = <<FALSE, TRUE>>
  /\ shopState.isOpen


\* C34: with powers activated by startGame only, activePowers is empty
\* whenever no game is playing, before the first game and after every
\* game-over, so the powers a game starts with are those startGame has just
\* activated: none is carried over from the game before.
NoPowerOutsideGame ==
  [][/\ ~gameState.isPlaying => activePowers = NoPowers
     /\ ~gameState'.isPlaying => activePowers' = NoPowers
     /\ ~gameState.isPlaying /\ gameState'.isPlaying =>
          \A id \in DOMAIN activePowers' :
            /\ shopState.usesRemaining[id] > 0
            /\ shopState'.usesRemaining[id] = shopState.usesRemaining[id] - 1
            /\ activePowers'[id] > now]_vars

\* C34: game-over has just ended a game that was played with active powers
NoPowerOutsideGame_Witness ==
  /\ gameState.gameOver
  /\ ~gameState.isPlaying
  /\ activePowers = NoPowers
  /\ effect.at = "collectibles"
  /\ effect.activePowers # NoPowers
  /\ last = Ran("loseLife", "gameOver")

\* C34: a second game has been started with no power, after a first game
\* played with one
NoPowerOutsideGame_NextGame ==
  /\ gameState.isPlaying
  /\ last.op = "startGame"
  /\ activePowers = NoPowers
  /\ gameState.highScore > 11
  /\ \E id \in PowerIds :
       /\ shopState.usesRemaining[id] = 0
       /\ ReadNumber(localStorage, UsesKey(id)) = 0
       /\ UsesKey(id) \in DOMAIN localStorage


\* the key holds the decimal string of the value; an absent key counts as 0
Persisted(key, value) ==
  IF key \in DOMAIN localStorage
  THEN localStorage[key] = ToString(value)
  ELSE value = 0

\* C35: write-through: after every operation (collectCoin, buyPower,
\* usePower, exchange, game-over) each persisted key holds the decimal
\* value of its in-memory counterpart: the total of bones, the premium
\* currency, the uses left of each power, the high score and the high
\* coins.
WrittenThrough ==
  /\ Persisted("dogeTotalCoins", totalCoinsCollected)
  /\ Persisted("dogeDogevisions", dogevisions)
  /\ Persisted("dogeHighScore", gameState.highScore)
  /\ Persisted("dogeHighCoins", gameState.highCoins)
  /\ \A id \in PowerIds : Persisted(UsesKey(id), shopState.usesRemaining[id])

\* C35: game-over has recorded a new high score and new high coins, after
\* bones were collected and a power was used in that game
WrittenThrough_Witness ==
  /\ gameState.gameOver
  /\ gameState.highScore = gameState.score
  /\ gameState.highCoins = gameState.coins
  /\ gameState.coins > 1
  /\ localStorage["dogeHighCoins"] = ToString(gameState.coins)
  /\ localStorage["dogeTotalCoins"] = ToString(totalCoinsCollected)
  /\ \E id \in PowerIds :
       /\ UsesKey(id) \in DOMAIN localStorage
       /\ localStorage[UsesKey(id)] = ToString(0)
  /\ effect = Idle

\* C35: an exchange has just been written, after a purchase
WrittenThrough_Exchange ==
  /\ last.op = "exchange"
  /\ last.arg = "success"
  /\ dogevisions = 100
  /\ localStorage["dogeDogevisions"] = ToString(dogevisions)
  /\ \E id \in PowerIds : shopState.usesRemaining[id] > 1


\* C36: the timeout of loseLife is never cancelled, yet at most one is
\* pending at any time and isInvulnerable is true exactly while one is
\* pending; game-over fires only when none is pending, so a game starts
\* with none pending and a timeout of one game never ends the
\* invulnerability of a later game.
OneTimeoutPending ==
  [][/\ Len(timeouts) <= 1
     /\ Len(timeouts') <= 1
     /\ isInvulnerable <=> timeouts # <<>>
     /\ isInvulnerable' <=> timeouts' # <<>>
     /\ gameState'.gameOver /\ ~gameState.gameOver =>
          timeouts = <<>> /\ timeouts' = <<>>
     /\ ~gameState.isPlaying => timeouts = <<>>
     /\ Len(timeouts') < Len(timeouts) =>
          /\ last'.op = "invulnerabilityTimeout"
          /\ timeouts[1] <= now]_vars

\* C36: a life was lost, the timeout has fired, and the next hit has ended
\* the game with no timeout pending
OneTimeoutPending_Witness ==
  /\ last = Ran("loseLife", "gameOver")
  /\ hits >= 2
  /\ timeouts = <<>>
  /\ ~isInvulnerable
  /\ now >= INVULNERABILITY_MS

\* C36: the player is invulnerable, the timeout is due and has not fired yet
OneTimeoutPending_Due ==
  /\ isInvulnerable
  /\ Len(timeouts) = 1
  /\ timeouts[1] <= now
  /\ lives = 1


\* C37: with the magnet active the second loop tests the distance of the
\* centres only; yet every collectible whose box meets the player's box is
\* within the 150 pixels, so the loop collects with the magnet every
\* collectible it would collect without it.
MagnetCoversContact ==
  [][effect.at = "collectibles" =>
       \A i \in DOMAIN collectibles :
         LET c == collectibles[i]
             magnet == IsActive(effect.activePowers, "magnetic_collector", now)
             contact == CheckCollision(PlayerBox(player), c)
         IN  /\ contact /\ ~c.collected /\ c.active =>
                  /\ collectibles'[i].collected
                  /\ gameState'.coins = gameState.coins + 1
             /\ contact =>
                  WithinRange(CentreDx(player, c), CentreDy(player, c),
                              MAGNETIC_RANGE)
             /\ ~magnet /\ ~contact => collectibles'[i] = c]_vars

\* C37: the magnet has collected a collectible whose box met the player's
\* by its very corner
MagnetCoversContact_Witness ==
  /\ last.op = "collectCoin"
  /\ "magnetic_collector" \in DOMAIN activePowers
  /\ activePowers["magnetic_collector"] > now
  /\ collectibles[1].collected
  /\ collectibles[1].x = player.x + PLAYER_WIDTH - 1
  /\ collectibles[1].y = player.y + PLAYER_HEIGHT - 1

\* C37: the magnet has collected a collectible whose box did not meet the
\* player's
MagnetCoversContact_Apart ==
  /\ last.op = "collectCoin"
  /\ collectibles[1].collected
  /\ collectibles[1].x = player.x + PLAYER_WIDTH


\* the player stands on the ground, ready for another jump
Landed ==
  /\ player.isGrounded
  /\ player.y = GROUND_Y - PLAYER_HEIGHT
  /\ player.vy = 0
  /\ player.jumpCount = 0

\* C38: after a jump, while the frames keep coming in a game being played, the
\* player lands: it is on the ground again at GROUND_Y - height with velocity
\* 0 and jumpCount 0, after at most LandingFrames frames (every frame in the
\* air adds GRAVITY to a velocity that starts at JUMP_FORCE and stays below
\* JUMP_FORCE + LandingFrames * GRAVITY).
JumpLands ==
  /\ (gameState.isPlaying /\ ~player.isGrounded)
       ~> (Landed \/ ~gameState.isPlaying)
  /\ [](~player.isGrounded =>
          player.vy <= JUMP_FORCE + (LandingFrames - 1) * GRAVITY)
  /\ [][last'.op = "gameLoop" /\ ~player.isGrounded =>
          \/ Landed'
          \/ ~player'.isGrounded /\ player'.vy = player.vy + GRAVITY]_vars

\* C38: the player has landed from a jump and another jump is accepted
JumpLands_Witness ==
  /\ last.op = "jump"
  /\ player = Airborne(0)
  /\ gameState.score > LandingFrames

\* C38: the player is in the last frame of a jump
JumpLands_LastFrame ==
  /\ gameState.isPlaying
  /\ ~player.isGrounded
  /\ player.vy = JUMP_FORCE + (LandingFrames - 1) * GRAVITY


\* what the store says was taken from the 1100 bones of the first visit
Debited(store) ==
  ReadNumber(RichNewcomer, "dogeTotalCoins") - ReadNumber(store, "dogeTotalCoins")

\* the price of what the store says was received: the purchases behind the
\* stored uses and the units behind the stored premium currency
Credited(store) ==
  LET Paid(id) ==
        (ReadNumber(store, UsesKey(id)) \div UsesAfterPurchase(0, id))
          * Cost(id)
  IN  Paid("double_collector") + Paid("magnetic_collector")
        + Paid("three_lives")
        + (ReadNumber(store, "dogeDogevisions") \div DOGEVISION_PER_UNIT)
            * EXCHANGE_RATE

\* C39: buyPower and exchangeForDogevision persist the debit of the balance
\* before the credit: between the two writes the store holds the debit
\* without the credit, a page closed there keeps that loss, and no state of
\* the store, intermediate or not, holds a credit without its debit.
DebitBeforeCredit ==
  /\ Credited(localStorage) <= Debited(localStorage)
  /\ effect.at \in {"buyPower", "exchange"} =>
       Credited(localStorage) < Debited(localStorage)
  /\ last.op \in {"buyPower", "exchange"} /\ last.arg # "failure" =>
       /\ totalCoinsCollected = ReadNumber(localStorage, "dogeTotalCoins")
       /\ dogevisions = ReadNumber(localStorage, "dogeDogevisions")
       /\ \A id \in PowerIds :
            shopState.usesRemaining[id] = ReadNumber(localStorage, UsesKey(id))

\* C39: the page was closed between the two writes of a purchase: the next
\* visit has paid for a power it does not hold
DebitBeforeCredit_Witness ==
  /\ last = Ran("crash", "buyPower")
  /\ totalCoinsCollected = 1000
  /\ shopState.usesRemaining["three_lives"] = 0
  /\ Debited(localStorage) = Cost("three_lives")
  /\ Credited(localStorage) = 0

\* C39: between the two writes of an exchange the store holds the debit only
DebitBeforeCredit_Exchange ==
  /\ effect.at = "exchange"
  /\ ReadNumber(localStorage, "dogeTotalCoins") = 100
  /\ ReadNumber(localStorage, "dogeDogevisions") = 0
  /\ totalCoinsCollected = 1100


AtMostFourObstacles_First ==
  /\ Len(obstacles) = 4
  /\ created.obstacles = 4

====
